---- MODULE Spec2Model ----
(***************************************************************************)
(* A model of the compgraph dataflow engine (src/graph/src/graph.py):      *)
(* the Graph builder, the scheduler (Graph.run, Graph._topological_sort,   *)
(* Graph._internal_run), the lazily pulled generator chains of the stages  *)
(* and the sort-merge / cross join kernel (class Join).                    *)
(*                                                                         *)
(* Records are functions from column names (strings) to values.  Values    *)
(* are integers; Python's None is the distinguished value None.            *)
(***************************************************************************)
EXTENDS Integers, Sequences, FiniteSets, TLC

VARIABLES
    jStrategy,   \* Join._strategy of the join under test
    jKey,        \* Join._key of the join under test
    jLeft,       \* the records of the left input, in input order
    jRight,      \* the records of the right input, in input order
    jOut,        \* the rows the generator Join.run yielded
    jErr,        \* the exception that reached the except clause of Join.run
    jDone,       \* whether Join.run has been drained
    left_table_groups,   \* in Join._join: left_table_part, then the groups of
                         \* left_table_groups that are not pulled yet
    right_table_groups   \* the same for the right side

joinVars == <<jStrategy, jKey, jLeft, jRight, jOut, jErr, jDone,
              left_table_groups, right_table_groups>>

VARIABLES
    source,                   \* Graph._source and _source_is_graph, per Graph
    parent_graphs,            \* Graph._parent_graphs
    nodes,                    \* Graph._nodes
    count_of_calls,           \* Graph._count_of_calls (fan_out)
    remained_count_of_calls,  \* Graph._remained_count_of_calls (remaining)
    output,                   \* Graph._output: a generator, NoGen for None
    cache,                    \* Graph._cache: a list object
    is_checked_in_sort,       \* Graph._is_checked_in_sort
    gens,                     \* the generator objects
    lists,                    \* the list objects
    root,                     \* the Graph the last call of run was made on
    kwargs,                   \* the bindings of that call
    order,                    \* its graphs_in_topological_order
    result,                   \* what it returned or raised
    runs,                     \* the number of calls of run so far
    output_stream,            \* the output_stream of that call: whether one was
                              \* given, and the lines written to it
    executed,                 \* history: the Graphs _internal_run ran on, that call
    produced,                 \* history: the records each of them put in its _cache
    reads,                    \* history: the reads of the replay buffers, that call
    calls,                    \* history: the calls of run so far
    log                       \* history: the exceptions raised inside the
                              \* generators in that call, and the ones the
                              \* except clause of Join.run caught and logged

graphVars == <<source, parent_graphs, nodes, count_of_calls, remained_count_of_calls,
               output, cache, is_checked_in_sort, gens, lists>>
runVars == <<root, kwargs, order, result, runs, output_stream>>
historyVars == <<executed, produced, reads, calls, log>>

vars == <<joinVars, graphVars, runVars, historyVars>>

-----------------------------------------------------------------------------
(* Values and records                                                      *)

None == -1

NoError == "none"

EmptyRecord == [c \in {} |-> None]

\* dict.update: the entries of e replace or extend those of d
Update(d, e) ==
    [c \in (DOMAIN d) \cup (DOMAIN e) |-> IF c \in DOMAIN e THEN e[c] ELSE d[c]]

\* column_name + '_left' / column_name + '_right' for a column in
\* _keys_with_common_name, the column name itself otherwise
NewColumnName(c, common, suffix) ==
    IF c \in common THEN c \o suffix ELSE c

\* the loop "for column_name in record: new_record.update({new name: value})"
\* (the new names of the columns of one record are pairwise different for
\* the column names used here, so the order of the updates does not matter)
RenameRecord(record, common, suffix) ==
    [n \in {NewColumnName(c, common, suffix) : c \in DOMAIN record} |->
        record[CHOOSE c \in DOMAIN record : NewColumnName(c, common, suffix) = n]]

\* a variant of NullRecord that keeps the names of the colliding columns
NullRecordNoRename(table_keys, common, suffix) ==
    [n \in table_keys |-> None]

\* the padding record built from the column set of the absent side
NullRecord(table_keys, common, suffix) ==
    [n \in {NewColumnName(c, common, suffix) : c \in table_keys} |-> None]

-----------------------------------------------------------------------------
(* Sort.run and Reduce.run on materialised inputs                          *)

\* tuple(record[column] for column in columns)
KeyTuple(record, columns) ==
    [i \in 1..Len(columns) |-> record[columns[i]]]

HasColumns(record, columns) ==
    \A i \in 1..Len(columns) : columns[i] \in DOMAIN record

\* the first position at which two key tuples differ, 0 if they are equal
FirstDiff(t1, t2) ==
    IF t1 = t2 THEN 0
    ELSE CHOOSE i \in 1..Len(t1) :
            /\ t1[i] # t2[i]
            /\ \A j \in 1..(i - 1) : t1[j] = t2[j]

\* Python orders two tuples by their first differing elements; None is not
\* ordered against anything (TypeError)
Comparable(t1, t2) ==
    LET i == FirstDiff(t1, t2)
    IN  i = 0 \/ (t1[i] # None /\ t2[i] # None)

TupleLess(t1, t2) ==
    LET i == FirstDiff(t1, t2)
    IN  i # 0 /\ t1[i] < t2[i]

\* a variant of Precedes under which a record also goes before the records
\* of equal key that came before it: a sort that is not stable
PrecedesOrEqual(x, y, columns, reverse) ==
    IF reverse
    THEN ~TupleLess(KeyTuple(x, columns), KeyTuple(y, columns))
    ELSE ~TupleLess(KeyTuple(y, columns), KeyTuple(x, columns))

\* x goes in front of y when the sort has to move it there: list.sort is
\* stable, also with reverse=True
Precedes(x, y, columns, reverse) ==
    IF reverse
    THEN TupleLess(KeyTuple(y, columns), KeyTuple(x, columns))
    ELSE TupleLess(KeyTuple(x, columns), KeyTuple(y, columns))

RECURSIVE InsertSorted(_, _, _, _)
InsertSorted(s, x, columns, reverse) ==
    IF s = <<>> THEN <<x>>
    ELSE IF Precedes(x, Head(s), columns, reverse)
         THEN <<x>> \o s
         ELSE <<Head(s)>> \o InsertSorted(Tail(s), x, columns, reverse)

\* a sort that orders the records ascending and, for reverse, turns the
\* sorted list around
RECURSIVE SortThenReverse(_, _, _)
SortThenReverse(data, columns, reverse) ==
    IF data = <<>> THEN <<>>
    ELSE IF reverse
    THEN [i \in 1..Len(data) |->
              SortThenReverse(data, columns, FALSE)[Len(data) + 1 - i]]
    ELSE InsertSorted(SortThenReverse(SubSeq(data, 1, Len(data) - 1), columns, FALSE),
                      data[Len(data)], columns, FALSE)

\* self._data.sort(key=..., reverse=...): the records are put in place one
\* after the other, each behind the records it does not precede
RECURSIVE SortData(_, _, _)
SortData(data, columns, reverse) ==
    IF data = <<>> THEN <<>>
    ELSE InsertSorted(SortData(SubSeq(data, 1, Len(data) - 1), columns, reverse),
                      data[Len(data)], columns, reverse)

\* the exception self._data.sort(key=...) raises, if any
SortError(data, columns) ==
    IF \E i \in 1..Len(data) : ~HasColumns(data[i], columns)
    THEN "KeyError"
    ELSE IF \E i, j \in 1..Len(data) :
                ~Comparable(KeyTuple(data[i], columns), KeyTuple(data[j], columns))
         THEN "TypeError"
         ELSE NoError

\* itertools.groupby: the maximal runs of consecutive records with equal key
RECURSIVE GroupRuns(_, _)
GroupRuns(data, columns) ==
    IF data = <<>> THEN <<>>
    ELSE LET rest == GroupRuns(Tail(data), columns)
         IN  IF /\ rest # <<>>
                /\ KeyTuple(Head(rest)[1], columns) = KeyTuple(Head(data), columns)
             THEN <<(<<Head(data)>> \o Head(rest))>> \o Tail(rest)
             ELSE <<(<<Head(data)>>)>> \o rest

-----------------------------------------------------------------------------
(* The join kernel                                                         *)

\* a constructor that pairs a single column name with the column "b"
JoinKeyOtherColumn(strategy, key) ==
    IF strategy # "cross"
    THEN IF Len(key) = 1 THEN <<key[1], "b">> ELSE key
    ELSE <<>>

\* Join.__init__: a single column name is stored as the pair (key, key),
\* a cross join stores no key.  A key is modelled as a sequence of column
\* names: <<c>> for the string c, <<c1, c2>> for a tuple, <<>> for None.
JoinKey(strategy, key) ==
    IF strategy # "cross"
    THEN IF Len(key) = 1 THEN <<key[1], key[1]>> ELSE key
    ELSE <<>>

stop_join_iteration_condition(strategy, left_table_part, right_table_part) ==
    IF strategy = "inner"
    THEN Len(left_table_part) = 0 \/ Len(right_table_part) = 0
    ELSE IF strategy = "left"
    THEN Len(left_table_part) = 0
    ELSE IF strategy = "right"
    THEN Len(right_table_part) = 0
    ELSE Len(left_table_part) = 0 /\ Len(right_table_part) = 0

cartesian_product_left_non_empty_right_empty(left_table_part, right_table_keys, common) ==
    LET new_record_right == NullRecord(right_table_keys, common, "_right")
    IN  [i \in 1..Len(left_table_part) |->
            Update(RenameRecord(left_table_part[i], common, "_left"), new_record_right)]

\* new_record.update(new_record_left) sits inside the loop over the columns
\* of record_right: a right record without columns gets no padding
cartesian_product_left_empty_right_non_empty(right_table_part, left_table_keys, common) ==
    LET new_record_left == NullRecord(left_table_keys, common, "_left")
    IN  [i \in 1..Len(right_table_part) |->
            IF DOMAIN right_table_part[i] = {}
            THEN EmptyRecord
            ELSE Update(RenameRecord(right_table_part[i], common, "_right"),
                        new_record_left)]

RECURSIVE ProductRows(_, _, _)
ProductRows(left_table_part, right_table_part, common) ==
    IF left_table_part = <<>> THEN <<>>
    ELSE LET new_record_left == RenameRecord(Head(left_table_part), common, "_left")
         IN  [j \in 1..Len(right_table_part) |->
                 Update(new_record_left,
                        RenameRecord(right_table_part[j], common, "_right"))]
             \o ProductRows(Tail(left_table_part), right_table_part, common)

\* a variant of the product that pairs a left record with the first right
\* record of the group only
ProductFirstRight(left_table_part, right_table_part, common) ==
    ProductRows(left_table_part, <<Head(right_table_part)>>, common)

cartesian_product_left_non_empty_right_non_empty(left_table_part, right_table_part, common) ==
    ProductRows(left_table_part, right_table_part, common)

\* _get_next_table_part: the next group, [] when the groups are used up
NextTablePart(groups) == IF groups = <<>> THEN <<>> ELSE Head(groups)

\* a variant of RestGroups in which the iterator over the groups is not
\* moved on
GroupsNotConsumed(groups) == groups

RestGroups(groups) == IF groups = <<>> THEN <<>> ELSE Tail(groups)

\* the loop of Join._join has ended: by its condition, a return or a raise
LoopEnd(err, left_groups, right_groups) ==
    [rows |-> <<>>, err |-> err, left |-> left_groups, right |-> right_groups,
     done |-> TRUE]

\* the loop of Join._join goes on after it yielded rows
LoopOn(rows, left_groups, right_groups) ==
    [rows |-> rows, err |-> NoError, left |-> left_groups, right |-> right_groups,
     done |-> FALSE]

\* One iteration of the while loop of Join._join: the test of the
\* condition, then the body.  left_groups and right_groups hold the current
\* table part first, then the groups not yet pulled.
JoinIterationStep(strategy, key, left_groups, right_groups, left_keys, right_keys, common) ==
    LET left_table_part == NextTablePart(left_groups)
        right_table_part == NextTablePart(right_groups)
        left_rows == cartesian_product_left_non_empty_right_empty(
                        left_table_part, right_keys, common)
        right_rows == cartesian_product_left_empty_right_non_empty(
                        right_table_part, left_keys, common)
    IN  IF stop_join_iteration_condition(strategy, left_table_part, right_table_part)
        THEN LoopEnd(NoError, left_groups, right_groups)
        ELSE IF Len(left_table_part) # 0 /\ Len(right_table_part) = 0
        THEN IF strategy = "inner" \/ strategy = "right"
             THEN LoopEnd(NoError, left_groups, right_groups)
             ELSE LoopOn(left_rows, RestGroups(left_groups), right_groups)
        ELSE IF Len(left_table_part) = 0 /\ Len(right_table_part) # 0
        THEN IF strategy = "inner" \/ strategy = "left"
             THEN LoopEnd(NoError, left_groups, right_groups)
             ELSE LoopOn(right_rows, left_groups, RestGroups(right_groups))
        ELSE IF left_table_part[1][key[1]] = right_table_part[1][key[2]]
        THEN LoopOn(cartesian_product_left_non_empty_right_non_empty(
                        left_table_part, right_table_part, common),
                    RestGroups(left_groups), RestGroups(right_groups))
        ELSE IF left_table_part[1][key[1]] = None \/ right_table_part[1][key[2]] = None
        THEN LoopEnd("TypeError", left_groups, right_groups)
        ELSE IF left_table_part[1][key[1]] < right_table_part[1][key[2]]
        THEN LoopOn(IF strategy = "left" \/ strategy = "full" THEN left_rows ELSE <<>>,
                    RestGroups(left_groups), right_groups)
        ELSE LoopOn(IF strategy = "right" \/ strategy = "full" THEN right_rows ELSE <<>>,
                    left_groups, RestGroups(right_groups))

\* The while loop of Join._join.  left_groups and right_groups hold the
\* current table part first, then the groups not yet pulled.
RECURSIVE JoinLoop(_, _, _, _, _, _, _)
JoinLoop(strategy, key, left_groups, right_groups, left_keys, right_keys, common) ==
    LET left_table_part == NextTablePart(left_groups)
        right_table_part == NextTablePart(right_groups)
        advance_left == JoinLoop(strategy, key, RestGroups(left_groups), right_groups,
                                 left_keys, right_keys, common)
        advance_right == JoinLoop(strategy, key, left_groups, RestGroups(right_groups),
                                  left_keys, right_keys, common)
        advance_both == JoinLoop(strategy, key, RestGroups(left_groups),
                                 RestGroups(right_groups), left_keys, right_keys, common)
        left_rows == cartesian_product_left_non_empty_right_empty(
                        left_table_part, right_keys, common)
        right_rows == cartesian_product_left_empty_right_non_empty(
                        right_table_part, left_keys, common)
        Emit(rows, rest) == [rows |-> rows \o rest.rows, err |-> rest.err]
    IN  IF stop_join_iteration_condition(strategy, left_table_part, right_table_part)
        THEN [rows |-> <<>>, err |-> NoError]
        ELSE IF Len(left_table_part) # 0 /\ Len(right_table_part) = 0
        THEN IF strategy = "inner" \/ strategy = "right"
             THEN [rows |-> <<>>, err |-> NoError]
             ELSE Emit(left_rows, advance_left)
        ELSE IF Len(left_table_part) = 0 /\ Len(right_table_part) # 0
        THEN IF strategy = "inner" \/ strategy = "left"
             THEN [rows |-> <<>>, err |-> NoError]
             ELSE Emit(right_rows, advance_right)
        ELSE LET key_left == left_table_part[1][key[1]]
                 key_right == right_table_part[1][key[2]]
             IN  IF key_left = key_right
                 THEN Emit(cartesian_product_left_non_empty_right_non_empty(
                               left_table_part, right_table_part, common),
                           advance_both)
                 ELSE IF key_left = None \/ key_right = None
                 THEN [rows |-> <<>>, err |-> "TypeError"]
                 ELSE IF key_left < key_right
                 THEN IF strategy = "left" \/ strategy = "full"
                      THEN Emit(left_rows, advance_left)
                      ELSE advance_left
                 ELSE IF strategy = "right" \/ strategy = "full"
                      THEN Emit(right_rows, advance_right)
                      ELSE advance_right

\* Join._join on the drained inputs: both sides are sorted by their key
\* column and grouped, then merged
join(strategy, key, left_table, right_table, left_keys, right_keys, common) ==
    LET left_err == SortError(left_table, <<key[1]>>)
        right_err == SortError(right_table, <<key[2]>>)
    IN  IF left_err # NoError THEN [rows |-> <<>>, err |-> left_err]
        ELSE IF right_err # NoError THEN [rows |-> <<>>, err |-> right_err]
        ELSE JoinLoop(strategy, key,
                      GroupRuns(SortData(left_table, <<key[1]>>, FALSE), <<key[1]>>),
                      GroupRuns(SortData(right_table, <<key[2]>>, FALSE), <<key[2]>>),
                      left_keys, right_keys, common)

\* the left part of a row of Join._cross_join: the columns of
\* _left_table_keys, read from the left record
CrossLeftRecord(record_left, left_keys, common) ==
    [n \in {NewColumnName(c, common, "_left") : c \in left_keys} |->
        record_left[CHOOSE c \in left_keys : NewColumnName(c, common, "_left") = n]]

RECURSIVE CrossRows(_, _, _, _)
CrossRows(left_table, right_table, left_keys, common) ==
    IF left_table = <<>> THEN <<>>
    ELSE LET new_record_left == CrossLeftRecord(Head(left_table), left_keys, common)
         IN  [j \in 1..Len(right_table) |->
                 Update(new_record_left,
                        RenameRecord(right_table[j], common, "_right"))]
             \o CrossRows(Tail(left_table), right_table, left_keys, common)

\* a variant of cross_join that goes through the right table in the outer
\* loop
CrossJoinRightMajor(left_table, right_table, left_keys, common) ==
    [rows |-> [n \in 1..(Len(left_table) * Len(right_table)) |->
                  Update(CrossLeftRecord(left_table[((n - 1) % Len(left_table)) + 1],
                                         left_keys, common),
                         RenameRecord(right_table[((n - 1) \div Len(left_table)) + 1],
                                      common, "_right"))],
     err |-> NoError]

\* Join._cross_join: every left record with every right record
cross_join(left_table, right_table, left_keys, common) ==
    IF \E i \in 1..Len(left_table) : ~(left_keys \subseteq DOMAIN left_table[i])
    THEN [rows |-> <<>>, err |-> "KeyError"]
    ELSE [rows |-> CrossRows(left_table, right_table, left_keys, common),
          err |-> NoError]

\* next(table, None) in the pre-pass of Join.run: the first record, as a
\* sequence of length 1, or the empty sequence for None
FirstElem(table) == IF table = <<>> THEN <<>> ELSE <<Head(table)>>

\* the table after next(table, None): the records not yet pulled
Rest(table) == IF table = <<>> THEN <<>> ELSE Tail(table)

\* a variant of EarlyReturn that returns only when both first records are None
EarlyReturnBothEmpty(first_elem_left_table, first_elem_right_table) ==
    first_elem_right_table = <<>> /\ first_elem_left_table = <<>>

\* the pre-pass of Join.run returns when either first record is None
EarlyReturn(first_elem_left_table, first_elem_right_table) ==
    first_elem_right_table = <<>> \/ first_elem_left_table = <<>>

\* a variant of Chain that loses the record pulled in the pre-pass
ChainDropsFirst(first_elem, rest) == rest

\* itertools.chain([first_elem], table): the pulled record is put back in
\* front of the records not yet pulled
Chain(first_elem, rest) == first_elem \o rest

\* set(first_elem.keys())
TableKeys(first_elem) == IF first_elem = <<>> THEN {} ELSE DOMAIN first_elem[1]

StrategiesRequireKeys == {"inner", "left", "right", "full"}

\* the try block of Join.run: the rows yielded and the exception caught
JoinDispatch(strategy, key, left_table, right_table, left_keys, right_keys) ==
    LET common == left_keys \cap right_keys
    IN  IF strategy \in StrategiesRequireKeys
        THEN IF key = <<>>
             THEN [rows |-> <<>>, err |-> "ValueError"]
             ELSE join(strategy, key, left_table, right_table,
                       left_keys, right_keys, common)
        ELSE IF strategy = "cross"
        THEN cross_join(left_table, right_table, left_keys, common)
        ELSE [rows |-> <<>>, err |-> "ValueError"]

\* Join.run on materialised inputs
JoinRun(strategy, key, left_table, right_table) ==
    LET first_elem_right_table == FirstElem(right_table)
        first_elem_left_table == FirstElem(left_table)
    IN  IF EarlyReturn(first_elem_left_table, first_elem_right_table)
        THEN [rows |-> <<>>, err |-> NoError]
        ELSE JoinDispatch(strategy, key,
                          Chain(first_elem_left_table, Rest(left_table)),
                          Chain(first_elem_right_table, Rest(right_table)),
                          TableKeys(first_elem_left_table),
                          TableKeys(first_elem_right_table))

-----------------------------------------------------------------------------
(* Generators.  Every stage's run is a Python generator: creating it runs   *)
(* nothing, and each next() runs it up to its next yield.  The world w is   *)
(* the part of the program state a generator can read or write:             *)
(*   w.gens      the generator objects, by identity                          *)
(*   w.lists     the list objects (_cache of a Graph, _data of a Sort), by   *)
(*               identity: "x = []" binds a new list, append and sort change *)
(*               the list in place under every iterator over it              *)
(*   w.nodes, w.count, w.remained, w.output, w.cache   the Graph attributes  *)
(*   w.reads     for every generator over a replay buffer (_cache), what it  *)
(*               has yielded so far, what the buffer held at its first       *)
(*               next(), and whether the buffer was rebound before that      *)
(*               (history, not program state)                                *)

NoGen == 0

NewId(heap) ==
    IF DOMAIN heap = {} THEN 1
    ELSE (CHOOSE i \in DOMAIN heap : \A j \in DOMAIN heap : j <= i) + 1

Alloc(heap, value) == heap @@ (NewId(heap) :> value)

Yield(w, v) == [w |-> w, kind |-> "yield", val |-> v, err |-> NoError]
Stop(w) == [w |-> w, kind |-> "stop", val |-> EmptyRecord, err |-> NoError]
Raise(w, e) ==
    [w |-> [w EXCEPT !.log.raised = @ \cup {e}], kind |-> "raise", val |-> EmptyRecord,
     err |-> e]

\* a generator that returned or raised is finished for good
Finish(w, id) == [w EXCEPT !.gens[id].state = "done"]

\* get_generator_from_iterable(iterable_value)
IterableGen(data) ==
    [kind |-> "iterable", state |-> "new", data |-> data, pos |-> 1]

\* json_to_generator(input_stream) over the lines of the stream
JsonGen(lines) ==
    [kind |-> "json", state |-> "new", data |-> lines, pos |-> 1]

\* Graph.get_generator_from_output_cache() of graph `of`, created by `by`
CacheGen(of, conn) ==
    [kind |-> "cache", state |-> "new", of |-> of, list |-> 0, pos |-> 1, conn |-> conn]

\* node.run(input) of the node at nodes[graph][index]
NodeGen(node, graph, index, inp) ==
    [kind |-> node.op, state |-> "new", graph |-> graph, index |-> index, inp |-> inp,
     pending |-> <<>>, list |-> 0, pos |-> 1, right |-> NoGen,
     acc |-> EmptyRecord, group |-> <<>>, ahead |-> <<>>]

\* a new generator over the replay buffer of `of`, on behalf of graph `by`
ConnectCache(w, of, by) ==
    LET conn == Len(w.reads) + 1
    IN  [w EXCEPT !.gens = Alloc(@, CacheGen(of, conn)),
                  !.reads = Append(@, [of |-> of, by |-> by, seen |-> <<>>,
                                       started |-> FALSE, done |-> FALSE,
                                       first |-> <<>>, released |-> FALSE])]

\* what a mapper yields for one record; the mapper "increment" is
\* record['a'] += 1; yield record
MapperOutput(mapper, record) ==
    IF mapper = "twice" THEN <<record, record>>
    ELSE IF mapper = "skip" THEN <<>>
    ELSE IF mapper = "repeat" THEN [i \in 1..record["k"] |-> record]
    ELSE IF mapper = "increment" THEN <<[record EXCEPT !["a"] = @ + 1]>>
    ELSE <<record>>

\* the exception a mapper raises for a record: the mapper "fail" raises for
\* the records with k = 1, the mapper "repeat" reads the column k
MapperError(mapper, record) ==
    IF mapper \in {"fail", "repeat"} /\ "k" \notin DOMAIN record THEN "KeyError"
    ELSE IF mapper = "increment" /\ "a" \notin DOMAIN record THEN "KeyError"
    ELSE IF mapper = "fail" /\ record["k"] = 1 THEN "RuntimeError"
    ELSE NoError

\* what a folder returns for a state and a record: the state itself, or the
\* state with the record's values added column by column
FolderValue(folder, state, record) ==
    IF folder = "identity" THEN state
    ELSE [c \in DOMAIN state |-> state[c] + record[c]]

\* the exception a folder raises for a state and a record
FolderError(folder, state, record) ==
    IF folder # "identity" /\ ~(DOMAIN state \subseteq DOMAIN record) THEN "KeyError"
    ELSE NoError

\* whether a folder changes the state it is given and returns it, as
\* "for column in state: state[column] += record[column]; return state"
FolderInPlace(folder) == folder = "sum_in_place"

\* what a reducer yields for the records of one group, which it reads to
\* the end before it yields
ReducerOutput(reducer, records) ==
    IF reducer = "count" THEN <<[n |-> Len(records)]>>
    ELSE IF reducer = "none" THEN <<>>
    ELSE records

\* the exception a reducer raises for the records of one group
ReducerError(reducer, records) ==
    IF reducer = "fail" THEN "RuntimeError" ELSE NoError

RECURSIVE Pull(_, _)
RECURSIVE Drain(_, _)
RECURSIVE MapStep(_, _)
RECURSIVE RecordCell(_, _)
RECURSIVE SortStep(_, _)
RECURSIVE JoinStep(_, _)
RECURSIVE FoldStep(_, _)
RECURSIVE ReduceStep(_, _)

\* for record in iterable_value: yield record
IterableStep(w, id) ==
    LET g == w.gens[id]
    IN  IF g.pos <= Len(g.data)
        THEN Yield([w EXCEPT !.gens[id].pos = @ + 1, !.gens[id].state = "running"],
                   g.data[g.pos])
        ELSE Stop(Finish(w, id))

\* a line of a text stream that holds nothing but its newline
BlankLine == [blank |-> TRUE, newline |-> TRUE]

\* json.loads(line): the record whose encoding the line holds
Decode(line) ==
    [c \in DOMAIN line.json |->
        IF line.json[c] = [null |-> TRUE] THEN None ELSE line.json[c].number]

\* the exception json.loads(line) raises: a line without a JSON value is
\* no JSON document
DecodeError(line) == IF "json" \in DOMAIN line THEN NoError ELSE "JSONDecodeError"

\* for line in input_stream: yield json.loads(line)
JsonStep(w, id) ==
    LET g == w.gens[id]
    IN  IF g.pos > Len(g.data) THEN Stop(Finish(w, id))
        ELSE IF DecodeError(g.data[g.pos]) # NoError
        THEN Raise(Finish(w, id), DecodeError(g.data[g.pos]))
        ELSE Yield([w EXCEPT !.gens[id].pos = @ + 1, !.gens[id].state = "running"],
                   Decode(g.data[g.pos]))

\* for record in self._cache: yield record.  self._cache is read when the
\* generator is first pulled
CacheStep(w, id) ==
    LET g == w.gens[id]
        list == IF g.state = "new" THEN w.cache[g.of] ELSE g.list
        Log(rd, item, done) ==
            IF g.conn = 0 THEN rd
            ELSE [rd EXCEPT ![g.conn] =
                     [@ EXCEPT !.seen = @ \o item, !.started = TRUE, !.done = done,
                               !.first = IF g.state = "new" THEN w.lists[list] ELSE @]]
    IN  IF g.pos <= Len(w.lists[list])
        THEN Yield([w EXCEPT !.gens[id] = [g EXCEPT !.state = "running", !.list = list,
                                                     !.pos = @ + 1],
                             !.reads = Log(@, <<w.lists[list][g.pos]>>, FALSE)],
                   w.lists[list][g.pos])
        ELSE Stop([w EXCEPT !.gens[id] = [g EXCEPT !.state = "done", !.list = list],
                            !.reads = Log(@, <<>>, TRUE)])

\* a Map that yields only the first record the mapper gives for a record
MapInputFirstOnly(r, mapper, id) ==
    IF r.kind = "yield" /\ MapperError(mapper, r.val) # NoError
    THEN Raise(Finish(r.w, id), MapperError(mapper, r.val))
    ELSE IF r.kind = "yield"
    THEN MapStep([r.w EXCEPT !.gens[id].state = "running",
                             !.gens[id].pending =
                                 IF MapperOutput(mapper, r.val) = <<>> THEN <<>>
                                 ELSE <<Head(MapperOutput(mapper, r.val))>>],
                 id)
    ELSE IF r.kind = "stop" THEN Stop(Finish(r.w, id))
    ELSE Raise(Finish(r.w, id), r.err)

\* the mappers that update the record they are given and yield that object
InPlace(mapper) == mapper = "increment"

\* the place in a replay buffer of the record object generator id gave last:
\* a generator over a buffer yields the objects of the list, a Map with a
\* mapper that yields its argument passes the object on
RecordCell(w, id) ==
    IF id = NoGen THEN [list |-> 0, pos |-> 0]
    ELSE IF w.gens[id].kind = "cache"
    THEN [list |-> w.gens[id].list, pos |-> w.gens[id].pos - 1]
    ELSE IF w.gens[id].kind = "map"
    THEN IF InPlace(w.nodes[w.gens[id].graph][w.gens[id].index].mapper)
         THEN RecordCell(w, w.gens[id].inp)
         ELSE [list |-> 0, pos |-> 0]
    ELSE [list |-> 0, pos |-> 0]

\* the mapper is called with the record object: what it writes into the
\* record is written into the buffer that holds the object
UpdateInPlace(w, id, mapper, record) ==
    IF InPlace(mapper) /\ RecordCell(w, w.gens[id].inp).list # 0
    THEN [w EXCEPT !.lists[RecordCell(w, w.gens[id].inp).list]
                          [RecordCell(w, w.gens[id].inp).pos] =
                       Head(MapperOutput(mapper, record))]
    ELSE w

\* Map.run after next(input_generator) gave r: the mapper's records are
\* yielded one by one, the end and an exception of the input are passed on
MapInput(r, mapper, id) ==
    IF r.kind = "yield" /\ MapperError(mapper, r.val) # NoError
    THEN Raise(Finish(r.w, id), MapperError(mapper, r.val))
    ELSE IF r.kind = "yield"
    THEN MapStep([UpdateInPlace(r.w, id, mapper, r.val)
                      EXCEPT !.gens[id].state = "running",
                             !.gens[id].pending = MapperOutput(mapper, r.val)],
                 id)
    ELSE IF r.kind = "stop" THEN Stop(Finish(r.w, id))
    ELSE Raise(Finish(r.w, id), r.err)

\* Map.run: for record in input_generator: yield from self._mapper(record)
MapStep(w, id) ==
    LET g == w.gens[id]
    IN  IF g.pending # <<>>
        THEN Yield([w EXCEPT !.gens[id].pending = Tail(@)], Head(g.pending))
        ELSE MapInput(Pull(w, g.inp), w.nodes[g.graph][g.index].mapper, id)

\* Sort.run once the input d is read: the records are appended to
\* self._data, then self._data.sort(...) sorts it in place or raises
SortInput(d, node, id) ==
    LET data == d.w.lists[node.data] \o d.items
        w1 == [d.w EXCEPT !.lists[node.data] = data]
    IN  IF d.err # NoError THEN Raise(Finish(w1, id), d.err)
        ELSE IF SortError(data, node.columns) # NoError
        THEN Raise(Finish(w1, id), SortError(data, node.columns))
        ELSE SortStep([w1 EXCEPT !.lists[node.data] =
                                     SortData(data, node.columns, node.reverse),
                                 !.gens[id].state = "running",
                                 !.gens[id].list = node.data],
                      id)

\* Sort.run: the input is appended to self._data, self._data is sorted in
\* place and yielded; self._data = [] runs when the consumer pulls past the
\* last record
SortStep(w, id) ==
    LET g == w.gens[id]
        node == w.nodes[g.graph][g.index]
    IN  IF g.state = "new"
        THEN SortInput(Drain(w, g.inp), node, id)
        ELSE IF g.pos <= Len(w.lists[g.list])
        THEN Yield([w EXCEPT !.gens[id].pos = @ + 1], w.lists[g.list][g.pos])
        ELSE Stop(Finish([w EXCEPT !.lists = Alloc(@, <<>>),
                                   !.nodes[g.graph][g.index].data = NewId(w.lists)],
                         id))

\* the rows of _join / _cross_join on the tables read, or the exception
\* that the except clause of Join.run logs
JoinRows(w, res) == [w |-> w, rows |-> res.rows, err |-> res.err]

\* the right input is read to its end after the left one
JoinRightRead(dr, left_table, node, first_elem_left_table, first_elem_right_table) ==
    IF dr.err # NoError
    THEN [w |-> dr.w, rows |-> <<>>, err |-> dr.err]
    ELSE JoinRows(dr.w,
                  JoinDispatch(node.strategy, node.key, left_table,
                               Chain(first_elem_right_table, dr.items),
                               TableKeys(first_elem_left_table),
                               TableKeys(first_elem_right_table)))

\* the left input is read to its end (and sorted, but for a cross join)
\* before the right input is touched again
JoinLeftRead(dl, node, right, first_elem_left_table, first_elem_right_table) ==
    LET left_table == Chain(first_elem_left_table, dl.items)
        left_err ==
            IF dl.err # NoError THEN dl.err
            ELSE IF node.strategy = "cross" THEN NoError
            ELSE SortError(left_table, <<node.key[1]>>)
    IN  IF left_err # NoError
        THEN [w |-> dl.w, rows |-> <<>>, err |-> left_err]
        ELSE JoinRightRead(Drain(dl.w, right), left_table, node,
                           first_elem_left_table, first_elem_right_table)

\* The body of the try block of Join.run once both first records are there:
\* _join / _cross_join pull the rest of the left input, then the rest of the
\* right input, and every exception ends the rows and is only logged.
JoinBody(w, node, left, right, first_elem_left_table, first_elem_right_table) ==
    IF \/ node.strategy \notin StrategiesRequireKeys \cup {"cross"}
       \/ (node.strategy \in StrategiesRequireKeys /\ node.key = <<>>)
    THEN [w |-> w, rows |-> <<>>, err |-> "ValueError"]
    ELSE JoinLeftRead(Drain(w, left), node, right,
                      first_elem_left_table, first_elem_right_table)

\* next(table, None) on a generator: the record as a sequence of length 1,
\* the empty sequence for None
PulledElem(r) == IF r.kind = "yield" THEN <<r.val>> ELSE <<>>

\* the rows of the join wait to be yielded one by one
JoinYield(body, id) ==
    JoinStep([body.w EXCEPT !.gens[id].pending = body.rows,
                            !.log.caught =
                                IF body.err = NoError THEN @
                                ELSE Append(@, [graph |-> body.w.gens[id].graph,
                                                index |-> body.w.gens[id].index,
                                                err |-> body.err])],
             id)

\* Join.run after the pre-pass pulled r1 from the right and r2 from the left
JoinPulledLeft(r1, r2, id, node, left, right) ==
    IF r2.kind = "raise" THEN Raise(Finish(r2.w, id), r2.err)
    ELSE IF EarlyReturn(PulledElem(r2), PulledElem(r1))
    THEN Stop(Finish(r2.w, id))
    ELSE JoinYield(JoinBody(r2.w, node, left, right, PulledElem(r2), PulledElem(r1)), id)

\* Join.run after the pre-pass pulled r1 from the right input
JoinPulledRight(r1, id, node, left, right) ==
    IF r1.kind = "raise" THEN Raise(Finish(r1.w, id), r1.err)
    ELSE JoinPulledLeft(r1, Pull(r1.w, left), id, node, left, right)

\* self._right_table of Join.run: on._output, or a new generator over the
\* replay buffer of on
RightTable(w, on) == IF w.count[on] = 1 THEN w.output[on] ELSE NewId(w.gens)

\* the first lines of Join.run, up to the pre-pass
JoinConnect(w, id, on) ==
    [(IF w.count[on] = 1 THEN w ELSE ConnectCache(w, on, w.gens[id].graph))
        EXCEPT !.remained[on] = @ - 1,
               !.gens[id].state = "running",
               !.gens[id].right = RightTable(w, on)]

\* self._on._cache = []: the attribute is bound to a new empty list; the
\* generators that have not yet started will read the new list
Release(w, on) ==
    [w EXCEPT !.lists = Alloc(@, <<>>),
              !.cache[on] = NewId(w.lists),
              !.reads = [c \in DOMAIN @ |->
                            IF @[c].of = on /\ ~@[c].started
                            THEN [@[c] EXCEPT !.released = TRUE]
                            ELSE @[c]]]

\* Join.run
JoinStep(w, id) ==
    LET g == w.gens[id]
        node == w.nodes[g.graph][g.index]
        on == node.on
    IN  IF g.state = "new"
        THEN JoinPulledRight(Pull(JoinConnect(w, id, on), RightTable(w, on)),
                             id, node, g.inp, RightTable(w, on))
        ELSE IF g.pending # <<>>
        THEN Yield([w EXCEPT !.gens[id].pending = Tail(@)], Head(g.pending))
        ELSE IF w.remained[on] = 0
        THEN Stop(Finish(Release(w, on), id))
        ELSE Stop(Finish(w, id))

\* Fold.run after next(input_generator) gave r: the folder is applied to
\* the state, which is the object self._initial_state when the folder
\* changes its state in place; at the end of the input the state is yielded
FoldInput(r, node, id) ==
    LET g == r.w.gens[id]
        state == FolderValue(node.folder, g.acc, r.val)
    IN  IF r.kind = "raise" THEN Raise(Finish(r.w, id), r.err)
        ELSE IF r.kind = "stop"
        THEN Yield([r.w EXCEPT !.gens[id].state = "yielded"], g.acc)
        ELSE IF FolderError(node.folder, g.acc, r.val) # NoError
        THEN Raise(Finish(r.w, id), FolderError(node.folder, g.acc, r.val))
        ELSE IF FolderInPlace(node.folder)
        THEN FoldStep([r.w EXCEPT !.gens[id].acc = state,
                                  !.nodes[g.graph][g.index].initial_state = state],
                      id)
        ELSE FoldStep([r.w EXCEPT !.gens[id].acc = state], id)

\* Fold.run: state = self._initial_state; for record in input_generator:
\* state = self._folder(state, record); yield state
FoldStep(w, id) ==
    LET g == w.gens[id]
        node == w.nodes[g.graph][g.index]
    IN  IF g.state = "yielded" THEN Stop(Finish(w, id))
        ELSE IF g.state = "new"
        THEN FoldStep([w EXCEPT !.gens[id].state = "running",
                                !.gens[id].acc = node.initial_state],
                      id)
        ELSE FoldInput(Pull(w, g.inp), node, id)

\* the reducer has read its group: its records wait to be yielded
ReduceGroup(w, node, id) ==
    LET g == w.gens[id]
    IN  IF ReducerError(node.reducer, g.group) # NoError
        THEN Raise(Finish(w, id), ReducerError(node.reducer, g.group))
        ELSE ReduceStep([w EXCEPT !.gens[id].pending = ReducerOutput(node.reducer, g.group),
                                  !.gens[id].group = <<>>],
                        id)

\* a Reduce that never ends a group: all the records go to one reducer call
ReduceMoreOneGroup(r, node, id) ==
    IF r.kind = "raise" THEN Raise(Finish(r.w, id), r.err)
    ELSE IF r.kind = "stop" THEN ReduceGroup(r.w, node, id)
    ELSE IF ~HasColumns(r.val, node.key) THEN Raise(Finish(r.w, id), "KeyError")
    ELSE ReduceStep([r.w EXCEPT !.gens[id].group = Append(@, r.val)], id)

\* Reduce.run after next(input_generator) gave r while the reducer reads a
\* group: groupby computes the key of r, which ends the group when it
\* differs and is then the first record of the next group
ReduceMore(r, node, id) ==
    LET g == r.w.gens[id]
    IN  IF r.kind = "raise" THEN Raise(Finish(r.w, id), r.err)
        ELSE IF r.kind = "stop" THEN ReduceGroup(r.w, node, id)
        ELSE IF ~HasColumns(r.val, node.key) THEN Raise(Finish(r.w, id), "KeyError")
        ELSE IF KeyTuple(r.val, node.key) = KeyTuple(g.group[1], node.key)
        THEN ReduceStep([r.w EXCEPT !.gens[id].group = Append(@, r.val)], id)
        ELSE ReduceGroup([r.w EXCEPT !.gens[id].ahead = <<r.val>>], node, id)

\* Reduce.run after next(input_generator) gave r and no group is open
ReduceFirst(r, node, id) ==
    IF r.kind = "raise" THEN Raise(Finish(r.w, id), r.err)
    ELSE IF r.kind = "stop" THEN Stop(Finish(r.w, id))
    ELSE IF ~HasColumns(r.val, node.key) THEN Raise(Finish(r.w, id), "KeyError")
    ELSE ReduceStep([r.w EXCEPT !.gens[id].group = <<r.val>>], id)

\* Reduce.run: for _, group in groupby(input_generator, key=...):
\* yield from self._reducer(group)
ReduceStep(w, id) ==
    LET g == w.gens[id]
        node == w.nodes[g.graph][g.index]
    IN  IF g.pending # <<>>
        THEN Yield([w EXCEPT !.gens[id].pending = Tail(@), !.gens[id].state = "running"],
                   Head(g.pending))
        ELSE IF g.group # <<>> THEN ReduceMore(Pull(w, g.inp), node, id)
        ELSE IF g.ahead # <<>>
        THEN ReduceStep([w EXCEPT !.gens[id].group = g.ahead, !.gens[id].ahead = <<>>], id)
        ELSE ReduceFirst(Pull(w, g.inp), node, id)

\* next(generator): NoGen stands for None, which is not iterable
Pull(w, id) ==
    IF id = NoGen THEN Raise(w, "TypeError")
    ELSE IF w.gens[id].state = "done" THEN Stop(w)
    ELSE IF w.gens[id].kind = "iterable" THEN IterableStep(w, id)
    ELSE IF w.gens[id].kind = "json" THEN JsonStep(w, id)
    ELSE IF w.gens[id].kind = "cache" THEN CacheStep(w, id)
    ELSE IF w.gens[id].kind = "map" THEN MapStep(w, id)
    ELSE IF w.gens[id].kind = "sort" THEN SortStep(w, id)
    ELSE IF w.gens[id].kind = "fold" THEN FoldStep(w, id)
    ELSE IF w.gens[id].kind = "reduce" THEN ReduceStep(w, id)
    ELSE JoinStep(w, id)

\* the records after the first one, r.val
DrainRest(r, d) == [w |-> d.w, items |-> <<r.val>> \o d.items, err |-> d.err]

\* one turn of the loop "for record in generator"
DrainNext(r, id) ==
    IF r.kind = "yield"
    THEN DrainRest(r, Drain(r.w, id))
    ELSE [w |-> r.w, items |-> <<>>, err |-> r.err]

\* for record in generator: the records up to the end or to an exception
Drain(w, id) == DrainNext(Pull(w, id), id)

-----------------------------------------------------------------------------
(* The scheduler                                                           *)

Reverse(s) == [i \in 1..Len(s) |-> s[Len(s) + 1 - i]]

\* the loop "for parent_graph in current_graph._parent_graphs"
RECURSIVE VisitParents(_, _, _, _)
VisitParents(parents, stack, in_order, checked) ==
    IF parents = <<>>
    THEN [stack |-> stack, order |-> in_order, checked |-> checked]
    ELSE IF ~checked[Head(parents)]
    THEN VisitParents(Tail(parents), Append(stack, Head(parents)),
                      Append(in_order, Head(parents)),
                      [checked EXCEPT ![Head(parents)] = TRUE])
    ELSE VisitParents(Tail(parents), stack, in_order, checked)

\* the loop "while len(stack_with_graphs) > 0", then the reverse
RECURSIVE SortLoop(_, _, _, _)
SortLoop(parents, stack, in_order, checked) ==
    IF Len(stack) = 0
    THEN [order |-> Reverse(in_order), checked |-> checked]
    ELSE LET current_graph == stack[Len(stack)]
             v == VisitParents(parents[current_graph], SubSeq(stack, 1, Len(stack) - 1),
                               in_order, checked)
         IN  SortLoop(parents, v.stack, v.order, v.checked)

\* Graph._topological_sort: the order and the _is_checked_in_sort flags
topological_sort(self, parents, checked) ==
    SortLoop(parents, <<self>>, <<self>>, [checked EXCEPT ![self] = TRUE])

\* the loop "for node in self._nodes: node_output = node.run(node_output)"
RECURSIVE BuildChainFromLast(_, _, _, _)
RECURSIVE BuildChain(_, _, _, _)
\* a variant of BuildChain that takes the nodes from the last to the first
BuildChainFromLast(w, g, i, node_output) ==
    IF i > Len(w.nodes[g])
    THEN [w |-> w, out |-> node_output]
    ELSE BuildChainFromLast(
             [w EXCEPT !.gens = Alloc(@, NodeGen(w.nodes[g][Len(w.nodes[g]) + 1 - i], g,
                                                 Len(w.nodes[g]) + 1 - i, node_output))],
             g, i + 1, NewId(w.gens))

BuildChain(w, g, i, node_output) ==
    IF i > Len(w.nodes[g])
    THEN [w |-> w, out |-> node_output]
    ELSE BuildChain([w EXCEPT !.gens = Alloc(@, NodeGen(w.nodes[g][i], g, i, node_output))],
                    g, i + 1, NewId(w.gens))

\* a value bound to a source key that is no text stream, no iterator and
\* no iterable, such as a number
NotIterable == <<[not_iterable |-> TRUE]>>

\* an open text file with the given lines, bound to a source key
TextStream(lines) == <<[text_stream |-> lines]>>

\* isinstance(value, io.TextIOWrapper)
IsTextStream(value) == Len(value) = 1 /\ DOMAIN value[1] = {"text_stream"}

\* an iterator over the given records, bound to a source key
IteratorOver(records) == <<[iterator |-> records]>>

IsIteratorOver(value) == Len(value) = 1 /\ DOMAIN value[1] = {"iterator"}

\* isinstance(value, Iterator): the value is the iterator object itself
IsIterator(value) == Len(value) = 1 /\ DOMAIN value[1] = {"iterator_object"}

\* the iterators among the keyword arguments are objects of the caller:
\* each is one object, whatever the number of Graphs that read its key
RECURSIVE BindIterators(_, _, _)
BindIterators(w, kw, keys) ==
    IF keys = {} THEN [w |-> w, kw |-> kw]
    ELSE LET key == CHOOSE k \in keys : TRUE
         IN  IF IsIteratorOver(kw[key])
             THEN BindIterators(
                      [w EXCEPT !.gens = Alloc(@, IterableGen(kw[key][1].iterator))],
                      [kw EXCEPT ![key] = <<[iterator_object |-> NewId(w.gens)]>>],
                      keys \ {key})
             ELSE BindIterators(w, kw, keys \ {key})

\* the generator over the value bound to the source key
BindingGen(value) ==
    IF IsTextStream(value) THEN JsonGen(value[1].text_stream) ELSE IterableGen(value)

\* node_output before the nodes: the output or a replay generator of the
\* source Graph, or a generator over kwargs[self._source]
SourceOutput(w, g, kw) ==
    LET src == w.source[g]
    IN  IF src.is_graph
        THEN IF w.count[src.graph] > 1
             THEN [w |-> [ConnectCache(w, src.graph, g)
                             EXCEPT !.remained[src.graph] = @ - 1],
                   out |-> NewId(w.gens)]
             ELSE [w |-> w, out |-> w.output[src.graph]]
        ELSE IF IsIterator(kw[src.key])
        THEN [w |-> w, out |-> kw[src.key][1].iterator_object]
        ELSE [w |-> [w EXCEPT !.gens = Alloc(@, BindingGen(kw[src.key]))],
              out |-> NewId(w.gens)]

\* the nodes' generators on top of node_output
NodesOutput(inp, g) == BuildChain(inp.w, g, 1, inp.out)

\* "for record in node_output: self._cache.append(record)", then
\* self._output = None
FillCache(d, g) ==
    LET w3 == [d.w EXCEPT !.lists[d.w.cache[g]] = @ \o d.items]
    IN  IF d.err # NoError
        THEN [w |-> w3, err |-> d.err, cached |-> d.items]
        ELSE [w |-> [w3 EXCEPT !.output[g] = NoGen], err |-> NoError, cached |-> d.items]

\* self._output = node_output, and the output is materialised when the
\* Graph has more than one consumer
SetOutput(chain, g) ==
    IF chain.w.count[g] > 1
    THEN FillCache(Drain([chain.w EXCEPT !.output[g] = chain.out], chain.out), g)
    ELSE [w |-> [chain.w EXCEPT !.output[g] = chain.out], err |-> NoError,
          cached |-> <<>>]

\* Graph._internal_run of graph g under the bindings kw: the world after it
\* and the exception it raised, if any
internal_run(w, g, kw) ==
    IF ~w.source[g].is_graph /\ w.source[g].key \notin DOMAIN kw
    THEN [w |-> w, err |-> "KeyError", cached |-> <<>>]
    ELSE IF ~w.source[g].is_graph /\ kw[w.source[g].key] = NotIterable
    THEN [w |-> w, err |-> "ValueError", cached |-> <<>>]
    ELSE SetOutput(NodesOutput(SourceOutput(w, g, kw), g), g)

\* list(self._output) once the output d is read
Listed(d) ==
    [w |-> d.w,
     result |-> IF d.err = NoError
                THEN [ok |-> TRUE, rows |-> d.items, err |-> NoError]
                ELSE [ok |-> FALSE, rows |-> <<>>, err |-> d.err]]

\* the end of Graph.run without output_stream: list(self._output)
return_list(w, self) == Listed(Drain(w, w.output[self]))

RECURSIVE RunLoop(_, _, _, _, _)

\* one turn of the loop of Graph.run: r is what _internal_run did
RunNext(r, in_order, kw, done, cached) ==
    IF r.err # NoError
    THEN [w |-> r.w, err |-> r.err, executed |-> Append(done, Head(in_order)),
          produced |-> Append(cached, r.cached)]
    ELSE RunLoop(r.w, Tail(in_order), kw, Append(done, Head(in_order)),
                 Append(cached, r.cached))

\* the loop "for graph_to_run in graphs_in_topological_order", which an
\* exception leaves
RunLoop(w, in_order, kw, done, cached) ==
    IF in_order = <<>>
    THEN [w |-> w, err |-> NoError, executed |-> done, produced |-> cached]
    ELSE RunNext(internal_run(w, Head(in_order), kw), in_order, kw, done, cached)

\* what the call leaves behind: ts from the sort, l from the loop, r from
\* the return
RunResult(ts, l, r) ==
    [w |-> r.w, checked |-> ts.checked, order |-> ts.order, executed |-> l.executed,
     produced |-> l.produced, result |-> r.result]

\* Graph.run after the loop: the exception of the loop, or the list
RunReturn(ts, l, self) ==
    IF l.err # NoError
    THEN RunResult(ts, l, [w |-> l.w,
                           result |-> [ok |-> FALSE, rows |-> <<>>, err |-> l.err]])
    ELSE RunResult(ts, l, return_list(l.w, self))

\* Graph.run after the sort
RunSorted(w, self, kw, ts) ==
    RunReturn(ts, RunLoop(w, ts.order, kw, <<>>, <<>>), self)

\* Graph.run(**kw) on the Graph self
run(w, self, kw, parents, checked) ==
    RunSorted(BindIterators(w, kw, DOMAIN kw).w, self, BindIterators(w, kw, DOMAIN kw).kw,
              topological_sort(self, parents, checked))

\* json.dumps(value) for the values of the records: None is written null,
\* an integer as its digits
JsonValue(v) == IF v = None THEN [null |-> TRUE] ELSE [number |-> v]

\* json.dumps(record) + "\n": the columns with their encoded values, and
\* the end of the line
Encode(record) ==
    [json |-> [c \in DOMAIN record |-> JsonValue(record[c])], newline |-> TRUE]

RECURSIVE WriteLoop(_, _, _)

\* a loop that keeps only the line written last
WriteNextOverwrites(r, id, lines) ==
    IF r.kind = "yield"
    THEN WriteLoop(r.w, id, <<Encode(r.val)>>)
    ELSE [w |-> r.w, lines |-> lines, err |-> r.err]

\* a loop that writes every line in front of the lines written before
WriteNextInFront(r, id, lines) ==
    IF r.kind = "yield"
    THEN WriteLoop(r.w, id, <<Encode(r.val)>> \o lines)
    ELSE [w |-> r.w, lines |-> lines, err |-> r.err]

\* one turn of the loop over self._output: the record r.val is written
WriteNext(r, id, lines) ==
    IF r.kind = "yield"
    THEN WriteLoop(r.w, id, Append(lines, Encode(r.val)))
    ELSE [w |-> r.w, lines |-> lines, err |-> r.err]

\* for record in self._output: output_stream.write(json.dumps(record) + "\n")
WriteLoop(w, id, lines) == WriteNext(Pull(w, id), id, lines)

\* the end of Graph.run with output_stream: the lines are written and the
\* empty list is returned, or the exception of the loop is raised
Written(wr) ==
    [w |-> wr.w,
     lines |-> wr.lines,
     result |-> IF wr.err = NoError
                THEN [ok |-> TRUE, rows |-> <<>>, err |-> NoError]
                ELSE [ok |-> FALSE, rows |-> <<>>, err |-> wr.err]]

\* what the call with output_stream leaves behind
RunSinkResult(ts, l, r) ==
    [w |-> r.w, checked |-> ts.checked, order |-> ts.order, executed |-> l.executed,
     produced |-> l.produced, result |-> r.result, lines |-> r.lines]

\* Graph.run with output_stream after the loop over the Graphs
RunSinkReturn(ts, l, self) ==
    IF l.err # NoError
    THEN RunSinkResult(ts, l, [w |-> l.w, lines |-> <<>>,
                               result |-> [ok |-> FALSE, rows |-> <<>>, err |-> l.err]])
    ELSE RunSinkResult(ts, l, Written(WriteLoop(l.w, l.w.output[self], <<>>)))

\* Graph.run with output_stream after the sort
RunSinkSorted(w, self, kw, ts) ==
    RunSinkReturn(ts, RunLoop(w, ts.order, kw, <<>>, <<>>), self)

\* Graph.run(output_stream, **kw) on the Graph self
run_sink(w, self, kw, parents, checked) ==
    RunSinkSorted(BindIterators(w, kw, DOMAIN kw).w, self,
                  BindIterators(w, kw, DOMAIN kw).kw,
                  topological_sort(self, parents, checked))

\* the generators and lists still referenced once the call is over
GenRefs(g) == IF g.kind \in {"iterable", "json", "cache"} THEN {} ELSE {g.inp, g.right} \ {NoGen}

RECURSIVE LiveGens(_, _)
LiveGens(w, set) ==
    LET more == set \cup UNION {GenRefs(w.gens[i]) : i \in set}
    IN  IF more = set THEN set ELSE LiveGens(w, more)

LiveLists(w, live_gens) ==
    ( {w.cache[g] : g \in 1..Len(w.cache)}
      \cup UNION { {w.nodes[g][i].data :
                        i \in {j \in 1..Len(w.nodes[g]) : w.nodes[g][j].op = "sort"}}
                   : g \in 1..Len(w.nodes) }
      \cup {w.gens[i].list : i \in {j \in live_gens : w.gens[j].kind \notin {"iterable", "json"}}} ) \ {0}

\* the caller has the result: the objects no attribute references are gone
Collect(w) ==
    LET live == LiveGens(w, {w.output[g] : g \in 1..Len(w.output)} \ {NoGen})
    IN  [w EXCEPT !.gens = [i \in live |->
                               IF w.gens[i].kind = "cache"
                               THEN [w.gens[i] EXCEPT !.conn = 0]
                               ELSE w.gens[i]],
                  !.lists = [i \in LiveLists(w, live) |-> w.lists[i]]]

-----------------------------------------------------------------------------
(* The state of the program                                                *)

MaxGraphs == 3
MaxNodes == 2
MaxRuns == 2

SourceKeys == {"x", "y"}

GraphStrategies == {"cross", "full"}

Mappers == {"twice"}

TableA == << [k |-> 2, a |-> 1], [k |-> 1, a |-> 2] >>
TableB == << [k |-> 1, a |-> 3] >>

\* the bindings a call of run may pass
Bindings ==
    { [x |-> TableA, y |-> TableB], [x |-> <<>>, y |-> TableA] }

Graphs == 1..Len(source)

NoResult == [ok |-> TRUE, rows |-> <<>>, err |-> NoError]

\* output_stream=None
NoStream == [given |-> FALSE, lines |-> <<>>]

\* nothing raised, nothing caught
NoLog == [raised |-> {}, caught |-> <<>>]

World ==
    [source |-> source, nodes |-> nodes, count |-> count_of_calls,
     remained |-> remained_count_of_calls, output |-> output, cache |-> cache,
     gens |-> gens, lists |-> lists, reads |-> <<>>, log |-> NoLog]

GraphInit ==
    /\ source = <<>>
    /\ parent_graphs = <<>>
    /\ nodes = <<>>
    /\ count_of_calls = <<>>
    /\ remained_count_of_calls = <<>>
    /\ output = <<>>
    /\ cache = <<>>
    /\ is_checked_in_sort = <<>>
    /\ gens = <<>>
    /\ lists = <<>>
    /\ root = 0
    /\ kwargs = <<>>
    /\ order = <<>>
    /\ result = NoResult
    /\ runs = 0
    /\ output_stream = NoStream
    /\ executed = <<>>
    /\ produced = <<>>
    /\ reads = <<>>
    /\ calls = <<>>
    /\ log = NoLog

JoinIdle ==
    /\ jStrategy = "cross"
    /\ jKey = <<>>
    /\ jLeft = <<>>
    /\ jRight = <<>>
    /\ jOut = <<>>
    /\ jErr = NoError
    /\ jDone = TRUE
    /\ left_table_groups = <<>>
    /\ right_table_groups = <<>>

Init == GraphInit /\ JoinIdle

RECURSIVE NodesUpTo(_)
NodesUpTo(g) == IF g = 0 THEN 0 ELSE Len(nodes[g]) + NodesUpTo(g - 1)

\* the number of nodes of all Graphs
NodeCount == NodesUpTo(Len(nodes))

\* the Graphs that the Graphs of set reach through _parent_graphs
RECURSIVE Upstream(_)
Upstream(set) ==
    LET more == set \cup UNION { {parent_graphs[g][i] : i \in 1..Len(parent_graphs[g])}
                                 : g \in set }
    IN  IF more = set THEN set ELSE Upstream(more)

\* a builder call; the Graphs are built first and run afterwards
Building ==
    /\ runs = 0
    /\ UNCHANGED <<runVars, historyVars, joinVars>>

\* Graph.__init__
NewGraph(src) ==
    /\ Len(source) < MaxGraphs
    /\ source' = Append(source, src)
    /\ parent_graphs' = Append(parent_graphs, IF src.is_graph THEN <<src.graph>> ELSE <<>>)
    /\ nodes' = Append(nodes, <<>>)
    /\ count_of_calls' =
          Append(IF src.is_graph THEN [count_of_calls EXCEPT ![src.graph] = @ + 1]
                                 ELSE count_of_calls, 0)
    /\ remained_count_of_calls' =
          Append(IF src.is_graph THEN [remained_count_of_calls EXCEPT ![src.graph] = @ + 1]
                                 ELSE remained_count_of_calls, 0)
    /\ output' = Append(output, NoGen)
    /\ lists' = Alloc(lists, <<>>)
    /\ cache' = Append(cache, NewId(lists))
    /\ is_checked_in_sort' = Append(is_checked_in_sort, FALSE)
    /\ Building
    /\ UNCHANGED gens

\* Graph.map
Map(g, mapper) ==
    /\ NodeCount < MaxNodes
    /\ nodes' = [nodes EXCEPT ![g] = Append(@, [op |-> "map", mapper |-> mapper])]
    /\ Building
    /\ UNCHANGED <<source, parent_graphs, count_of_calls, remained_count_of_calls, output,
                   cache, is_checked_in_sort, gens, lists>>

\* Graph.sort
Sort(g, columns, reverse) ==
    /\ NodeCount < MaxNodes
    /\ lists' = Alloc(lists, <<>>)
    /\ nodes' = [nodes EXCEPT ![g] = Append(@, [op |-> "sort", columns |-> columns,
                                                 reverse |-> reverse,
                                                 data |-> NewId(lists)])]
    /\ Building
    /\ UNCHANGED <<source, parent_graphs, count_of_calls, remained_count_of_calls, output,
                   cache, is_checked_in_sort, gens>>

\* Graph.fold
Fold(g, folder, initial_state) ==
    /\ NodeCount < MaxNodes
    /\ nodes' = [nodes EXCEPT ![g] = Append(@, [op |-> "fold", folder |-> folder,
                                                 initial_state |-> initial_state,
                                                 s0 |-> initial_state])]
    /\ Building
    /\ UNCHANGED <<source, parent_graphs, count_of_calls, remained_count_of_calls, output,
                   cache, is_checked_in_sort, gens, lists>>

\* Graph.reduce: a key given as one column name is the list of that name
Reduce(g, reducer, key) ==
    /\ NodeCount < MaxNodes
    /\ nodes' = [nodes EXCEPT ![g] = Append(@, [op |-> "reduce", reducer |-> reducer,
                                                 key |-> key])]
    /\ Building
    /\ UNCHANGED <<source, parent_graphs, count_of_calls, remained_count_of_calls, output,
                   cache, is_checked_in_sort, gens, lists>>

\* a join that registers on as a parent and leaves its counters alone
JoinNoCount(g, on, strategy, key) ==
    /\ NodeCount < MaxNodes
    /\ g \notin Upstream({on})
    /\ nodes' = [nodes EXCEPT ![g] = Append(@, [op |-> "join", on |-> on,
                                                 strategy |-> strategy,
                                                 key |-> JoinKey(strategy, key)])]
    /\ parent_graphs' = [parent_graphs EXCEPT ![g] = Append(@, on)]
    /\ Building
    /\ UNCHANGED <<source, output, cache, is_checked_in_sort, gens, lists,
                   count_of_calls, remained_count_of_calls>>

\* Graph.join (the Graphs stay a DAG: on does not consume g)
Join(g, on, strategy, key) ==
    /\ NodeCount < MaxNodes
    /\ g \notin Upstream({on})
    /\ remained_count_of_calls' = [remained_count_of_calls EXCEPT ![on] = @ + 1]
    /\ count_of_calls' = [count_of_calls EXCEPT ![on] = @ + 1]
    /\ nodes' = [nodes EXCEPT ![g] = Append(@, [op |-> "join", on |-> on,
                                                 strategy |-> strategy,
                                                 key |-> JoinKey(strategy, key)])]
    /\ parent_graphs' = [parent_graphs EXCEPT ![g] = Append(@, on)]
    /\ Building
    /\ UNCHANGED <<source, output, cache, is_checked_in_sort, gens, lists>>

\* Graph.run(**kw) on the Graph self, from the call to the return or raise
Run(self, kw) ==
    /\ runs < MaxRuns
    /\ \E r \in {run(World, self, kw, parent_graphs, is_checked_in_sort)} :
       \E w \in {Collect(r.w)} :
           /\ nodes' = w.nodes
           /\ remained_count_of_calls' = w.remained
           /\ output' = w.output
           /\ cache' = w.cache
           /\ gens' = w.gens
           /\ lists' = w.lists
           /\ reads' = w.reads
           /\ log' = w.log
           /\ is_checked_in_sort' = r.checked
           /\ order' = r.order
           /\ executed' = r.executed
           /\ produced' = r.produced
           /\ result' = r.result
           /\ calls' = Append(calls, [root |-> self, kwargs |-> kw, result |-> r.result])
    /\ root' = self
    /\ kwargs' = kw
    /\ runs' = runs + 1
    /\ output_stream' = NoStream
    /\ UNCHANGED <<source, parent_graphs, count_of_calls, joinVars>>

\* Graph.run(output_stream, **kw) on the Graph self, from the call to the
\* return or raise
RunSink(self, kw) ==
    /\ runs < MaxRuns
    /\ \E r \in {run_sink(World, self, kw, parent_graphs, is_checked_in_sort)} :
       \E w \in {Collect(r.w)} :
           /\ nodes' = w.nodes
           /\ remained_count_of_calls' = w.remained
           /\ output' = w.output
           /\ cache' = w.cache
           /\ gens' = w.gens
           /\ lists' = w.lists
           /\ reads' = w.reads
           /\ log' = w.log
           /\ is_checked_in_sort' = r.checked
           /\ order' = r.order
           /\ executed' = r.executed
           /\ produced' = r.produced
           /\ result' = r.result
           /\ output_stream' = [given |-> TRUE, lines |-> r.lines]
           /\ calls' = Append(calls, [root |-> self, kwargs |-> kw, result |-> r.result])
    /\ root' = self
    /\ kwargs' = kw
    /\ runs' = runs + 1
    /\ UNCHANGED <<source, parent_graphs, count_of_calls, joinVars>>

Sources ==
    {[is_graph |-> FALSE, graph |-> 0, key |-> k] : k \in SourceKeys}
    \cup {[is_graph |-> TRUE, graph |-> g, key |-> ""] : g \in Graphs}

Next ==
    \/ \E src \in Sources : NewGraph(src)
    \/ \E g \in Graphs, mapper \in Mappers : Map(g, mapper)
    \/ \E g \in Graphs : Sort(g, <<"k">>, FALSE)
    \/ \E g \in Graphs, on \in Graphs, strategy \in GraphStrategies :
          Join(g, on, strategy, <<"k">>)
    \/ \E self \in Graphs, kw \in Bindings : Run(self, kw)

Spec == Init /\ [][Next]_vars

-----------------------------------------------------------------------------
(* Properties of the scheduler                                             *)

\* the parents (source parent and join parents) of a Graph
ParentsOf(g) == {parent_graphs[g][i] : i \in 1..Len(parent_graphs[g])}

\* a call of run is over
Returned == root # 0

\* the records Graph g put in its replay buffer during the last call
ProducedBy(g) ==
    produced[CHOOSE i \in 1..Len(executed) : executed[i] = g]

\* the Graphs as they are right after the builder calls: no generator, empty
\* buffers, no Graph visited by a sort
\* a node as the builder call made it
FreshNode(node) ==
    IF node.op = "fold" THEN [node EXCEPT !.initial_state = node.s0] ELSE node

FreshWorld ==
    [source |-> source,
     nodes |-> [g \in Graphs |-> [i \in 1..Len(nodes[g]) |-> FreshNode(nodes[g][i])]],
     count |-> count_of_calls,
     remained |-> count_of_calls, output |-> [g \in Graphs |-> NoGen],
     cache |-> cache, gens |-> <<>>,
     lists |-> [i \in LiveLists(World, {}) |-> <<>>], reads |-> <<>>, log |-> NoLog]

\* what run(**kw) returns on a newly built copy of the Graphs
FreshRun(self, kw) ==
    run(FreshWorld, self, kw, parent_graphs, [g \in Graphs |-> FALSE]).result

\* C1: in every call of run, every parent of a Graph in the execution order
\* stands before that Graph in the order
SchedulerOrder ==
    \A i \in 1..Len(order) : \A j \in 1..Len(order) :
        order[j] \in ParentsOf(order[i]) => j < i

\* C2: in one call of run, every consumer that read the replay buffer of a
\* Graph with fan-out above one to its end saw exactly the records that
\* Graph produced in this call, in order
ReplayDeterminism ==
    \A c \in 1..Len(reads) :
        ( /\ count_of_calls[reads[c].of] > 1
          /\ reads[c].done
          /\ \E i \in 1..Len(executed) : executed[i] = reads[c].of )
        => reads[c].seen = ProducedBy(reads[c].of)

\* C24: in one call of run, when a consumer first pulls from the replay
\* buffer of a Graph with fan-out above one that the call executes, the
\* buffer holds all the records that Graph produces in the call
ReplayBufferComplete ==
    \A c \in 1..Len(reads) :
        ( /\ count_of_calls[reads[c].of] > 1
          /\ reads[c].started
          /\ \E i \in 1..Len(executed) : executed[i] = reads[c].of )
        => reads[c].first = ProducedBy(reads[c].of)

\* C3: the second of two calls of run on one Graph with different bindings
\* returns what a newly built copy of the Graphs returns for those bindings
MultiCallIndependence ==
    ( /\ Len(calls) = 2
      /\ calls[1].root = calls[2].root
      /\ calls[1].kwargs # calls[2].kwargs )
    => calls[2].result = FreshRun(calls[2].root, calls[2].kwargs)

\* C4: a call of run that returned executed every Graph upstream of its root
\* (the root included) exactly once
ExecutedOnce ==
    (Returned /\ result.ok)
    => \A g \in Upstream({root}) :
           Cardinality({i \in 1..Len(executed) : executed[i] = g}) = 1

-----------------------------------------------------------------------------
(* Graphs with joins that end without a row, and the replay buffers        *)

ReleaseStrategies == {"inner", "cross"}

\* the bindings of the calls: tables without a common key, and with one
ReleaseBindings ==
    { [x |-> <<[k |-> 2, a |-> 1]>>, y |-> TableB], [x |-> TableA, y |-> TableB] }

NextRelease ==
    \/ \E src \in Sources : NewGraph(src)
    \/ \E g \in Graphs, on \in Graphs, strategy \in ReleaseStrategies :
          Join(g, on, strategy, <<"k">>)
    \/ \E self \in Graphs, kw \in ReleaseBindings : Run(self, kw)

SpecRelease == Init /\ [][NextRelease]_vars

\* C25: in a call of run, the replay buffer of a Graph with fan-out above
\* one is not released while a consumer that is connected to it has not
\* started to read it
NoEarlyRelease ==
    \A c \in 1..Len(reads) :
        count_of_calls[reads[c].of] > 1 => ~reads[c].released

\* C26: when a call of run has returned, the replay buffer of every Graph
\* with fan-out above one whose remaining counter is 0 is empty
ReleasedAtZero ==
    (Returned /\ result.ok)
    => \A g \in Graphs :
           (count_of_calls[g] > 1 /\ remained_count_of_calls[g] = 0)
           => lists[cache[g]] = <<>>

\* C27: after a call of run, the replay buffer of a Graph with fan-out at
\* most one holds no record, and the buffer of a Graph with fan-out above
\* one that the call executed holds the records that execution produced,
\* each once and none from an earlier execution, unless it was released
BufferHoldsOutput ==
    \A g \in Graphs :
        /\ count_of_calls[g] <= 1 => lists[cache[g]] = <<>>
        /\ \A i \in 1..Len(executed) :
              (executed[i] = g /\ count_of_calls[g] > 1)
              => lists[cache[g]] \in {<<>>, produced[i]}

\* C30: the first call of run on a Graph that other Graphs consume returns
\* a list: it does not fail
RootWithConsumers ==
    (Len(calls) = 1 /\ count_of_calls[root] >= 1) => result.ok

\* C29: the remaining-consumer counter of every Graph is at least 0 and at
\* most the Graph's fan-out
RemainedInRange ==
    \A g \in Graphs :
        /\ 0 <= remained_count_of_calls[g]
        /\ remained_count_of_calls[g] <= count_of_calls[g]

\* C32: when a call of run has returned, the list _data of every Sort node
\* is empty
SortBuffersEmpty ==
    (Returned /\ result.ok)
    => \A g \in Graphs : \A i \in 1..Len(nodes[g]) :
           nodes[g][i].op = "sort" => lists[nodes[g][i].data] = <<>>

-----------------------------------------------------------------------------
(* Graphs whose mappers update the records they are given                  *)

\* the bindings of the calls
SharedBindings ==
    { [x |-> TableA, y |-> TableB], [x |-> TableB, y |-> TableA] }

\* Graphs sourced from bindings and from each other, each with at most one
\* Map whose mapper updates its record in place
NextShared ==
    \/ \E src \in Sources : NewGraph(src)
    \/ \E g \in Graphs : nodes[g] = <<>> /\ Map(g, "increment")
    \/ \E self \in Graphs, kw \in SharedBindings : Run(self, kw)

SpecShared == Init /\ [][NextShared]_vars

\* the last n records of a list
LastRecords(list, n) == SubSeq(list, Len(list) - n + 1, Len(list))

\* C28: the records a Graph with fan-out above one put in its replay buffer
\* in a call are the same when the call is over, unless the buffer was
\* released: no operator of a consumer has changed them
BufferRecordsKept ==
    \A g \in Graphs : \A i \in 1..Len(executed) :
        ( /\ executed[i] = g
          /\ count_of_calls[g] > 1
          /\ Len(lists[cache[g]]) >= Len(produced[i]) )
        => LastRecords(lists[cache[g]], Len(produced[i])) = produced[i]

-----------------------------------------------------------------------------
(* The counters of the Graphs while they are built                         *)

\* the Graphs constructed with g as their source
SourcedFrom(g) == {h \in Graphs : source[h].is_graph /\ source[h].graph = g}

\* the join stages that name g as their right side
JoinsOn(g) ==
    {hi \in Graphs \X (1..MaxNodes) :
        /\ hi[2] <= Len(nodes[hi[1]])
        /\ nodes[hi[1]][hi[2]].op = "join"
        /\ nodes[hi[1]][hi[2]].on = g}

\* g is the source or a right side of some downstream Graph
Wired(g) == \E h \in Graphs : \E i \in 1..Len(parent_graphs[h]) : parent_graphs[h][i] = g

\* C20: before any run, the fan_out of every Graph is the number of Graphs
\* constructed with it as source plus the number of join stages naming it
\* as right side, its remaining counter equals its fan_out, and the fan_out
\* of a Graph wired into a downstream Graph is at least 1
BuilderCounters ==
    runs = 0
    => \A g \in Graphs :
          /\ count_of_calls[g] = Cardinality(SourcedFrom(g)) + Cardinality(JoinsOn(g))
          /\ remained_count_of_calls[g] = count_of_calls[g]
          /\ Wired(g) => count_of_calls[g] >= 1

BuilderCountersWitness ==
    /\ runs = 0
    /\ \E g \in Graphs :
          /\ SourcedFrom(g) # {}
          /\ JoinsOn(g) # {}
          /\ count_of_calls[g] >= 2
    /\ \E g \in Graphs : count_of_calls[g] = 0

-----------------------------------------------------------------------------
(* Graphs whose stages fail: joins with a wrong configuration, stages that *)
(* raise or read a missing column, calls of run with a binding missing     *)

MaxErrorGraphs == 2

\* the joins of these Graphs: an unknown strategy, no key, a key column
\* that no record has, and a join that is in order
ErrorJoins ==
    { [strategy |-> "outer", key |-> <<"k">>],
      [strategy |-> "inner", key |-> <<>>],
      [strategy |-> "inner", key |-> <<"zz">>],
      [strategy |-> "inner", key |-> <<"k">>] }

\* the reducers of these Graphs, with the key of the Reduce
ErrorReducers ==
    { [reducer |-> "fail", key |-> <<"k">>], [reducer |-> "list", key |-> <<"zz">>] }

\* the bindings of the calls: complete, without x, and x bound to a number
ErrorBindings ==
    { [x |-> TableA, y |-> TableA], [y |-> TableA], [x |-> NotIterable, y |-> TableA] }

NextErrors ==
    \/ \E src \in Sources : Len(source) < MaxErrorGraphs /\ NewGraph(src)
    \/ \E g \in Graphs : Map(g, "fail")
    \/ \E g \in Graphs : Sort(g, <<"zz">>, FALSE)
    \/ \E g \in Graphs : Fold(g, "sum", [zz |-> 0])
    \/ \E g \in Graphs, r \in ErrorReducers : Reduce(g, r.reducer, r.key)
    \/ \E g \in Graphs, on \in Graphs, j \in ErrorJoins : Join(g, on, j.strategy, j.key)
    \/ \E self \in Graphs, kw \in ErrorBindings : Run(self, kw)

SpecErrors == Init /\ [][NextErrors]_vars

\* the node whose except clause logged the entry c of log.caught
CaughtNode(c) == nodes[c.graph][c.index]

\* the exceptions raised in the stages during the last call, caught or not
RaisedInStages == log.raised \cup {log.caught[i].err : i \in 1..Len(log.caught)}

\* the external source keys of the Graphs upstream of the root of the last
\* call that the call left without a binding or bound to no iterable
Unbound ==
    {g \in Upstream({root}) :
        /\ ~source[g].is_graph
        /\ \/ source[g].key \notin DOMAIN kwargs
           \/ kwargs[source[g].key] = NotIterable}

\* C11: a call of run in which a join found its strategy to be none of
\* inner, left, right, full, cross raises to the caller and returns no result
UnknownStrategyFails ==
    \A i \in 1..Len(log.caught) :
        ( /\ Returned
          /\ log.caught[i].err = "ValueError"
          /\ CaughtNode(log.caught[i]).strategy \notin StrategiesRequireKeys \cup {"cross"} )
        => (~result.ok /\ result.err = "ValueError")

\* C12: a call of run in which a join with strategy inner, left, right or
\* full found that it has no key raises to the caller and returns no result
MissingKeyFails ==
    \A i \in 1..Len(log.caught) :
        ( /\ Returned
          /\ log.caught[i].err = "ValueError"
          /\ CaughtNode(log.caught[i]).strategy \in StrategiesRequireKeys
          /\ CaughtNode(log.caught[i]).key = <<>> )
        => (~result.ok /\ result.err = "ValueError")

\* C13: a call of run in which a mapper, folder or reducer raised, or a
\* Sort, Reduce or Join read a missing column, raises to the caller: it
\* returns no result
NoErrorRecovered ==
    (Returned /\ RaisedInStages \cap {"KeyError", "RuntimeError"} # {})
    => ~result.ok

\* C14: a call of run that leaves an external source key upstream of the
\* root without a binding, or bound to a value that is not iterable, raises
\* to the caller and returns no result
UnboundSourceFails ==
    (Returned /\ Unbound # {}) => ~result.ok

-----------------------------------------------------------------------------
(* Calls of run with and without an output stream                          *)

MaxSinkGraphs == 2

SinkMappers == {"twice", "fail"}

NextSink ==
    \/ \E src \in Sources : Len(source) < MaxSinkGraphs /\ NewGraph(src)
    \/ \E g \in Graphs, mapper \in SinkMappers : Map(g, mapper)
    \/ \E g \in Graphs, on \in Graphs : Join(g, on, "cross", <<>>)
    \/ \E self \in Graphs, kw \in Bindings : Run(self, kw)
    \/ \E self \in Graphs, kw \in Bindings : RunSink(self, kw)

SpecSink == Init /\ [][NextSink]_vars

\* the lines that serialising the list rows gives
Serialised(rows) == [i \in 1..Len(rows) |-> Encode(rows[i])]

\* the call with an output stream that the step made agrees with r, the
\* call without one made in the state the step started from
SinkAgrees(r) ==
    /\ result'.ok = r.result.ok
    /\ r.result.ok => /\ result'.rows = <<>>
                      /\ output_stream'.lines = Serialised(r.result.rows)

\* C15: a call of run with an output stream writes one encoded line for
\* every record of the list that run without an output stream returns for
\* the same Graphs and bindings, in the same order, and returns the empty list
SinkEquivalence ==
    [][ (runs' = runs + 1 /\ output_stream'.given)
        => \E r \in {run(World, root', kwargs', parent_graphs, is_checked_in_sort)} :
               SinkAgrees(r) ]_vars

SinkEquivalenceWitness ==
    /\ output_stream.given
    /\ result.ok
    /\ Len(output_stream.lines) >= 2
    /\ \E i, j \in 1..Len(output_stream.lines) : output_stream.lines[i] # output_stream.lines[j]

-----------------------------------------------------------------------------
(* Calls of run with an output stream that a raising mapper ends           *)

\* the bindings of the calls: the mapper "fail" raises for the third record
\* of x and for the first record of y
AbortBindings ==
    { [x |-> << [k |-> 2, a |-> 1], [k |-> 3, a |-> 2], [k |-> 1, a |-> 3] >>,
       y |-> << [k |-> 1, a |-> 3] >>],
      [x |-> << [k |-> 3, a |-> 1] >>,
       y |-> << [k |-> 2, a |-> 1], [k |-> 1, a |-> 2] >>] }

NextAbort ==
    \/ \E src \in Sources : Len(source) < MaxSinkGraphs /\ NewGraph(src)
    \/ \E g \in Graphs, mapper \in SinkMappers : Map(g, mapper)
    \/ \E g \in Graphs, on \in Graphs : Join(g, on, "cross", <<>>)
    \/ \E self \in Graphs, kw \in AbortBindings : RunSink(self, kw)

SpecAbort == Init /\ [][NextAbort]_vars

\* the node with a mapper that yields what "fail" yields and never raises
WithoutFailure(node) ==
    IF node.op = "map" /\ node.mapper = "fail" THEN [node EXCEPT !.mapper = "same"]
    ELSE node

\* the program state with the mappers that raise replaced
WorldWithoutFailure ==
    [World EXCEPT !.nodes = [g \in 1..Len(nodes) |->
                                [i \in 1..Len(nodes[g]) |-> WithoutFailure(nodes[g][i])]]]

IsPrefix(s, t) == Len(s) <= Len(t) /\ SubSeq(t, 1, Len(s)) = s

\* C35: when a call of run with an output stream raises, the lines it
\* wrote before are in the stream, and they are the first lines of what the
\* same call writes when no mapper raises
SinkKeepsPrefix ==
    [][ (runs' = runs + 1 /\ output_stream'.given /\ ~result'.ok)
        => \E r \in {run_sink(WorldWithoutFailure, root', kwargs', parent_graphs,
                               is_checked_in_sort)} :
               IsPrefix(output_stream'.lines, r.lines) ]_vars

\* a call raised after it wrote two different lines
SinkKeepsPrefixWitness ==
    /\ output_stream.given
    /\ ~result.ok
    /\ Len(output_stream.lines) >= 2
    /\ output_stream.lines[1] # output_stream.lines[2]

-----------------------------------------------------------------------------
(* One Graph with one stage, run on enumerated inputs                      *)

MaxStageNodes == 1
MaxStageLen == 3
MaxStageKey == 2
MaxStagePayload == 2

\* the records of the inputs: a key column k and a payload column a
StageRecords == {[k |-> k, a |-> a] : k \in 1..MaxStageKey, a \in 1..MaxStagePayload}

\* the inputs bound to the source key x
StageTables == UNION {[1..n -> StageRecords] : n \in 0..MaxStageLen}

StageMappers == {"twice", "skip", "repeat", "same"}
StageColumns == {<<"k">>, <<"a", "k">>}
StageFolders == {"sum", "sum_in_place", "identity"}
StageReducers == {"count", "list", "none"}
StageInitialState == [a |-> 0]

NextStage ==
    \/ Len(source) < 1 /\ NewGraph([is_graph |-> FALSE, graph |-> 0, key |-> "x"])
    \/ \E g \in Graphs, mapper \in StageMappers : NodeCount < MaxStageNodes /\ Map(g, mapper)
    \/ \E g \in Graphs, columns \in StageColumns, reverse \in BOOLEAN :
          NodeCount < MaxStageNodes /\ Sort(g, columns, reverse)
    \/ \E g \in Graphs, folder \in StageFolders :
          NodeCount < MaxStageNodes /\ Fold(g, folder, StageInitialState)
    \/ \E g \in Graphs, reducer \in StageReducers, key \in StageColumns :
          NodeCount < MaxStageNodes /\ Reduce(g, reducer, key)
    \/ \E self \in Graphs, table \in StageTables : Run(self, [x |-> table])

SpecStage == Init /\ [][NextStage]_vars

\* the last call returned or raised, and the Graph it ran has the one stage op
StageRan(op) ==
    /\ Returned
    /\ Len(nodes[1]) = 1
    /\ nodes[1][1].op = op

\* the stage and the input of the last call
Stage == nodes[1][1]
StageInput == kwargs.x

RECURSIVE Flatten(_)
Flatten(seqs) == IF seqs = <<>> THEN <<>> ELSE Head(seqs) \o Flatten(Tail(seqs))

RECURSIVE SumLen(_)
SumLen(seqs) == IF seqs = <<>> THEN 0 ELSE Len(Head(seqs)) + SumLen(Tail(seqs))

\* what the mapper yields for each record of the input
MapperOutputs == [i \in 1..Len(StageInput) |-> MapperOutput(Stage.mapper, StageInput[i])]

\* C16: the output of a Map is the concatenation, in input order, of what
\* the mapper yields for each record, so it has as many records as the
\* mapper yields in all
MapConcatenation ==
    StageRan("map")
    => /\ result.ok
       /\ result.rows = Flatten(MapperOutputs)
       /\ Len(result.rows) = SumLen(MapperOutputs)

MapConcatenationWitness ==
    /\ StageRan("map")
    /\ result.ok
    /\ \E i, j \in 1..Len(StageInput) :
          /\ i < j
          /\ Len(MapperOutputs[i]) > 1
          /\ Len(MapperOutputs[j]) > 0
          /\ Len(MapperOutputs[i]) # Len(MapperOutputs[j])

\* the one-to-one maps from the positions of the output to those of the input
Rearrangements(n) == {p \in [1..n -> 1..n] : \A i, j \in 1..n : p[i] = p[j] => i = j}

\* the key tuple of a record for the columns of the Sort
SortKey(record) == KeyTuple(record, Stage.columns)

\* the key tuple t1 may stand before t2 in the direction of the Sort
InOrder(t1, t2) ==
    IF Stage.reverse THEN ~TupleLess(t1, t2) ELSE ~TupleLess(t2, t1)

\* p maps the output rows to the input so that the keys are in order and
\* records of equal key tuple are in the order of the input
StableOrder(p, rows) ==
    /\ \A i \in 1..Len(rows) : rows[i] = StageInput[p[i]]
    /\ \A i, j \in 1..Len(rows) :
          i < j => /\ InOrder(SortKey(rows[i]), SortKey(rows[j]))
                   /\ SortKey(rows[i]) = SortKey(rows[j]) => p[i] < p[j]

RECURSIVE FoldLeft(_, _, _)
FoldLeft(folder, state, records) ==
    IF records = <<>> THEN state
    ELSE FoldLeft(folder, FolderValue(folder, state, Head(records)), Tail(records))

\* C18: the output of a Fold is exactly one record, the folder applied left
\* to right to the whole input from the initial state the Fold was built
\* with; for an empty input and for the identity folder it is that state
FoldResult ==
    StageRan("fold")
    => /\ result.ok
       /\ result.rows = <<FoldLeft(Stage.folder, Stage.s0, StageInput)>>
       /\ (StageInput = <<>> \/ Stage.folder = "identity") => result.rows = <<Stage.s0>>

\* C33: the second call of run on a Graph with one Fold returns what the
\* Fold as it was built returns for that call's input: the first call has no
\* effect on it
FoldRunsIndependent ==
    (StageRan("fold") /\ Len(calls) = 2)
    => calls[2].result = FreshRun(calls[2].root, calls[2].kwargs)

\* the key tuple of a record for the key of the Reduce
ReduceKey(record) == KeyTuple(record, Stage.key)

\* the positions of the input at which a run of equal key tuples starts
RunStarts ==
    {i \in 1..Len(StageInput) :
        i = 1 \/ ReduceKey(StageInput[i]) # ReduceKey(StageInput[i - 1])}

\* the start of the n-th run
RunStart(n) == CHOOSE i \in RunStarts : Cardinality({j \in RunStarts : j <= i}) = n

\* the last position of the run that starts at i
RunEnd(i) ==
    IF \E j \in RunStarts : j > i
    THEN (CHOOSE j \in RunStarts : j > i /\ \A h \in RunStarts : h > i => j <= h) - 1
    ELSE Len(StageInput)

\* the maximal runs of consecutive records of equal key tuple, in input order
MaximalRuns ==
    [n \in 1..Cardinality(RunStarts) |->
        SubSeq(StageInput, RunStart(n), RunEnd(RunStart(n)))]

\* C19: the output of a Reduce is the concatenation, in input order, of what
\* the reducer yields for each maximal run of consecutive records with equal
\* key tuple, one reducer call per run, so a key whose records are not
\* contiguous gives several groups
ReducePartition ==
    StageRan("reduce")
    => /\ result.ok
       /\ result.rows =
             Flatten([n \in 1..Len(MaximalRuns) |->
                         ReducerOutput(Stage.reducer, MaximalRuns[n])])
       /\ Stage.reducer = "count" => Len(result.rows) = Cardinality(RunStarts)

ReducePartitionWitness ==
    /\ StageRan("reduce")
    /\ Stage.reducer = "count"
    /\ result.ok
    /\ Len(result.rows) = 3
    /\ \E i, j \in RunStarts :
          i # j /\ ReduceKey(StageInput[i]) = ReduceKey(StageInput[j])

-----------------------------------------------------------------------------
(* Graphs with several stages of different kinds                           *)

OrderStrategies == {"cross", "inner"}

\* the bindings of the calls: the tables are not in key order, and a key
\* occurs in both
OrderBindings ==
    { [x |-> << [k |-> 2, a |-> 1], [k |-> 1, a |-> 2] >>,
       y |-> << [k |-> 1, a |-> 3], [k |-> 2, a |-> 5] >>],
      [x |-> << [k |-> 2, a |-> 2], [k |-> 1, a |-> 1], [k |-> 2, a |-> 3] >>,
       y |-> << [k |-> 2, a |-> 4] >>] }

\* Graphs over the source keys, with stages of every kind; a Graph is
\* joined by one join at most
NextOrder ==
    \/ \E key \in SourceKeys : NewGraph([is_graph |-> FALSE, graph |-> 0, key |-> key])
    \/ \E g \in Graphs : Map(g, "twice")
    \/ \E g \in Graphs, reverse \in BOOLEAN : Sort(g, <<"k">>, reverse)
    \/ \E g \in Graphs : Fold(g, "sum", [a |-> 0])
    \/ \E g \in Graphs : Reduce(g, "count", <<"k">>)
    \/ \E g \in Graphs, on \in Graphs, strategy \in OrderStrategies :
          count_of_calls[on] = 0 /\ Join(g, on, strategy, <<"k">>)
    \/ \E self \in Graphs, kw \in OrderBindings : Run(self, kw)

SpecOrder == Init /\ [][NextOrder]_vars

\* what the reducer yields for the runs of records with equal key, in order
ReduceRuns(reducer, groups) ==
    Flatten([i \in 1..Len(groups) |-> ReducerOutput(reducer, groups[i])])

\* the records a stage gives for the records of its input, and for the
\* records of the Graph it joins
StageOutput(node, input, right) ==
    IF node.op = "map"
    THEN Flatten([i \in 1..Len(input) |-> MapperOutput(node.mapper, input[i])])
    ELSE IF node.op = "sort" THEN SortData(input, node.columns, node.reverse)
    ELSE IF node.op = "fold" THEN <<FoldLeft(node.folder, node.s0, input)>>
    ELSE IF node.op = "reduce" THEN ReduceRuns(node.reducer, GroupRuns(input, node.key))
    ELSE JoinRun(node.strategy, node.key, input, right).rows

\* stage n of stage n-1 of ... of stage 1 of the records bound to the
\* Graph's source key; a join has the output of the Graph it joins on its
\* right
RECURSIVE StagesInOrder(_, _, _)
StagesInOrder(g, n, kw) ==
    IF n = 0 THEN kw[source[g].key]
    ELSE StageOutput(nodes[g][n], StagesInOrder(g, n - 1, kw),
                     IF nodes[g][n].op = "join"
                     THEN StagesInOrder(nodes[g][n].on, Len(nodes[nodes[g][n].on]), kw)
                     ELSE <<>>)

\* the generator id is the generator of stage n of Graph g, and it reads
\* from the generator of stage n - 1, and so on down to stage 1, which
\* reads from a generator that is no stage of g
RECURSIVE ChainInOrder(_, _, _)
ChainInOrder(g, n, id) ==
    IF n = 0
    THEN id # NoGen /\ (gens[id].kind \in {"iterable", "json", "cache"} \/ gens[id].graph # g)
    ELSE /\ id # NoGen
         /\ gens[id].kind = nodes[g][n].op
         /\ gens[id].graph = g
         /\ gens[id].index = n
         /\ ChainInOrder(g, n - 1, gens[id].inp)

\* C34: in every call of run the output of the Graph is the generator of
\* its last stage, which reads from the generator of the stage before it,
\* and so on down to the first stage, which reads from the source: a join
\* has the stages before it as its left input.  The first call, when no
\* stage raised, returns the records of the last stage applied to the
\* records of the stage before it, and so on down to the source.
StagesSequential ==
    /\ (Returned /\ output[root] # NoGen)
       => ChainInOrder(root, Len(nodes[root]), output[root])
    /\ (Len(calls) = 1 /\ result.ok /\ RaisedInStages = {})
       => result.rows = StagesInOrder(root, Len(nodes[root]), kwargs)

\* a call returned rows from a Graph with two stages of different kinds,
\* or with a join after a stage
StagesSequentialWitness ==
    /\ Len(calls) = 1 /\ result.ok /\ RaisedInStages = {}
    /\ Len(nodes[root]) = 2
    /\ nodes[root][1].op # nodes[root][2].op
    /\ nodes[root][2].op = "join"
    /\ Len(result.rows) >= 2

-----------------------------------------------------------------------------
(* Graphs over one source key that is bound to a list or to an iterator    *)

SourceRecords == << [k |-> 2, a |-> 1], [k |-> 1, a |-> 2] >>

\* the bindings of the calls: every key is bound to a list or to an
\* iterator over the same records
SourceBindings ==
    { [x |-> bx, y |-> by] :
        bx \in {SourceRecords, IteratorOver(SourceRecords)},
        by \in {<< [k |-> 1, a |-> 3] >>, IteratorOver(<< [k |-> 1, a |-> 3] >>)} }

NextSource ==
    \/ \E key \in SourceKeys : NewGraph([is_graph |-> FALSE, graph |-> 0, key |-> key])
    \/ \E g \in Graphs : Map(g, "twice")
    \/ \E g \in Graphs, on \in Graphs, strategy \in OrderStrategies :
          count_of_calls[on] = 0 /\ Join(g, on, strategy, <<"k">>)
    \/ \E self \in Graphs, kw \in SourceBindings : Run(self, kw)

SpecSource == Init /\ [][NextSource]_vars

\* the records behind a binding
BoundRecords(value) == IF IsIteratorOver(value) THEN value[1].iterator ELSE value

\* the bindings with every iterator replaced by the list of its records
AsLists(kw) == [key \in DOMAIN kw |-> BoundRecords(kw[key])]

\* C36: the first call of run returns what the stages give when every Graph
\* reads all the records bound to its source key, for a list and for an
\* iterator, also when several Graphs have the same source key
SourcesComplete ==
    (Len(calls) = 1 /\ result.ok /\ RaisedInStages = {})
    => result.rows = StagesInOrder(root, Len(nodes[root]), AsLists(kwargs))

-----------------------------------------------------------------------------
(* One Graph whose source key is bound to a text stream                    *)

MaxStreamLen == 3
MaxStreamKey == 2

\* the lines of the streams: the encodings of one-column records and the
\* line that is empty
StreamLines == {Encode([k |-> k]) : k \in 1..MaxStreamKey} \cup {BlankLine}

Streams == UNION {[1..n -> StreamLines] : n \in 0..MaxStreamLen}

NextStream ==
    \/ Len(source) < 1 /\ NewGraph([is_graph |-> FALSE, graph |-> 0, key |-> "x"])
    \/ \E g \in Graphs : NodeCount < 1 /\ Map(g, "twice")
    \/ \E self \in Graphs, lines \in Streams : Run(self, [x |-> TextStream(lines)])

SpecStream == Init /\ [][NextStream]_vars

NotBlank(line) == line # BlankLine

\* the records of the lines that are not empty, in line order
LineRecords(lines) ==
    LET kept == SelectSeq(lines, NotBlank)
    IN  [i \in 1..Len(kept) |-> Decode(kept[i])]

\* C22: a run of a Graph whose source key is bound to a text stream reads
\* one record from every line that is not empty, in line order, and skips
\* the empty lines without failing
StreamSkipsEmptyLines ==
    (Returned /\ nodes[1] = <<>>)
    => /\ result.ok
       /\ result.rows = LineRecords(kwargs.x[1].text_stream)

-----------------------------------------------------------------------------
(* The join kernel on its own: every strategy on all small tables          *)

MaxKey == 3
MaxLeft == 3
MaxRight == 2

Strategies == {"inner", "left", "right", "full", "cross"}

\* the tables of the join under test: the schemas of the two sides, the key
\* as given to Graph.join, and whether the payload columns tell the records
\* of a side apart (their position) or not (0: equal records occur)
Scenarios ==
    { [left |-> {"k", "a"}, right |-> {"k", "b"}, key |-> <<"k">>, payload |-> "position"],
      [left |-> {"k", "a"}, right |-> {"k", "b"}, key |-> <<"k">>, payload |-> "zero"],
      [left |-> {"k", "v"}, right |-> {"k", "v"}, key |-> <<"k", "k">>, payload |-> "position"],
      [left |-> {"k", "a"}, right |-> {"j", "b"}, key |-> <<"k", "j">>, payload |-> "position"],
      [left |-> {"k", "v"}, right |-> {"j", "v"}, key |-> <<"k", "j">>, payload |-> "zero"] }

MakeRecord(schema, key_column, k, p) ==
    [c \in schema |-> IF c = key_column THEN k ELSE p]

Tables(schema, key_column, payload, max_len) ==
    UNION { { [i \in 1..n |-> MakeRecord(schema, key_column, ks[i],
                                         IF payload = "position" THEN i ELSE 0)]
              : ks \in [1..n -> 1..MaxKey] }
            : n \in 0..max_len }

JoinInit ==
    /\ \E sc \in Scenarios, st \in Strategies :
         /\ jStrategy = st
         /\ jKey = JoinKey(st, sc.key)
         /\ jLeft \in Tables(sc.left, sc.key[1], sc.payload, MaxLeft)
         /\ jRight \in Tables(sc.right, sc.key[Len(sc.key)], sc.payload, MaxRight)
    /\ jOut = <<>>
    /\ jErr = NoError
    /\ jDone = FALSE
    /\ left_table_groups = <<>>
    /\ right_table_groups = <<>>
    /\ GraphInit

\* the generator Join.run is drained
JoinDrain ==
    /\ ~jDone
    /\ LET res == JoinRun(jStrategy, jKey, jLeft, jRight)
       IN  /\ jOut' = res.rows
           /\ jErr' = res.err
    /\ jDone' = TRUE
    /\ UNCHANGED <<jStrategy, jKey, jLeft, jRight, left_table_groups, right_table_groups,
                   graphVars, runVars, historyVars>>

KernelNext == JoinDrain

SpecJoin == JoinInit /\ [][KernelNext]_vars

-----------------------------------------------------------------------------
(* The join kernel on tables whose key column may hold None                *)

MaxNullKey == 2
MaxNullLen == 2

\* the values of the key column: None and the integers up to MaxNullKey
NullKeys == {None} \cup (1..MaxNullKey)

NullScenarios ==
    { [left |-> {"k", "a"}, right |-> {"k", "b"}, key |-> <<"k">>],
      [left |-> {"k", "a"}, right |-> {"j", "b"}, key |-> <<"k", "j">>] }

NullTables(schema, key_column) ==
    UNION { { [i \in 1..n |-> MakeRecord(schema, key_column, ks[i], i)]
              : ks \in [1..n -> NullKeys] }
            : n \in 0..MaxNullLen }

JoinNullInit ==
    /\ \E sc \in NullScenarios, st \in Strategies :
         /\ jStrategy = st
         /\ jKey = JoinKey(st, sc.key)
         /\ jLeft \in NullTables(sc.left, sc.key[1])
         /\ jRight \in NullTables(sc.right, sc.key[Len(sc.key)])
    /\ jOut = <<>>
    /\ jErr = NoError
    /\ jDone = FALSE
    /\ left_table_groups = <<>>
    /\ right_table_groups = <<>>
    /\ GraphInit

SpecJoinNull == JoinNullInit /\ [][KernelNext]_vars

-----------------------------------------------------------------------------
(* The loop of Join._join, one iteration at a time                         *)

MaxMergeKey == 2
MaxMergeLen == 3

\* the tables the loop runs on: Join.run calls _join when both inputs have
\* a record, and the loop starts when both sorts have succeeded
MergeTables(schema, key_column) ==
    { t \in UNION { { [i \in 1..n |-> MakeRecord(schema, key_column, ks[i], i)]
                        : ks \in [1..n -> {None} \cup (1..MaxMergeKey)] }
                      : n \in 1..MaxMergeLen } :
        SortError(t, <<key_column>>) = NoError }

\* Join._join up to the while: both sides are sorted and grouped and the
\* first table parts are pulled
MergeInit ==
    /\ \E sc \in NullScenarios, st \in StrategiesRequireKeys :
         /\ jStrategy = st
         /\ jKey = JoinKey(st, sc.key)
         /\ jLeft \in MergeTables(sc.left, sc.key[1])
         /\ jRight \in MergeTables(sc.right, sc.key[Len(sc.key)])
    /\ left_table_groups = GroupRuns(SortData(jLeft, <<jKey[1]>>, FALSE), <<jKey[1]>>)
    /\ right_table_groups = GroupRuns(SortData(jRight, <<jKey[2]>>, FALSE), <<jKey[2]>>)
    /\ jOut = <<>>
    /\ jErr = NoError
    /\ jDone = FALSE
    /\ GraphInit

\* one iteration of the while loop of Join._join
JoinIteration ==
    /\ ~jDone
    /\ \E r \in {JoinIterationStep(jStrategy, jKey, left_table_groups, right_table_groups,
                                   TableKeys(FirstElem(jLeft)), TableKeys(FirstElem(jRight)),
                                   TableKeys(FirstElem(jLeft))
                                       \cap TableKeys(FirstElem(jRight)))} :
          /\ jOut' = jOut \o r.rows
          /\ jErr' = r.err
          /\ left_table_groups' = r.left
          /\ right_table_groups' = r.right
          /\ jDone' = r.done
    /\ UNCHANGED <<jStrategy, jKey, jLeft, jRight, graphVars, runVars, historyVars>>

\* the generator Join._join is pulled until it ends: an iteration that can
\* run does run
SpecMerge == MergeInit /\ [][JoinIteration]_vars /\ WF_vars(JoinIteration)

\* the loop, run to its end, gives what Join.run gives on the same tables
LoopAgreesWithJoin ==
    jDone => [rows |-> jOut, err |-> jErr] = JoinRun(jStrategy, jKey, jLeft, jRight)

\* the groups the loop has still to go through, the current parts included
GroupsLeft == Len(left_table_groups) + Len(right_table_groups)

\* C31: the loop of a non-cross join ends on all tables and for every
\* strategy: every iteration ends the loop or moves the left side, the
\* right side or both on to the next group
JoinLoopTerminates ==
    /\ [][jDone' \/ GroupsLeft' < GroupsLeft]_vars
    /\ <>jDone

\* a full join has gone through two groups on each side
JoinLoopTerminatesWitness ==
    /\ jDone /\ jStrategy = "full" /\ jErr = NoError
    /\ Len(GroupRuns(SortData(jLeft, <<jKey[1]>>, FALSE), <<jKey[1]>>)) >= 2
    /\ Len(GroupRuns(SortData(jRight, <<jKey[2]>>, FALSE), <<jKey[2]>>)) >= 2
    /\ GroupsLeft = 0

-----------------------------------------------------------------------------
(* Properties of the join kernel                                           *)

\* the column sets observed in the pre-pass and the names the columns carry
\* in an output row
KL == DOMAIN jLeft[1]
KR == DOMAIN jRight[1]
LeftName(c) == IF c \in KL \cap KR THEN c \o "_left" ELSE c
RightName(c) == IF c \in KL \cap KR THEN c \o "_right" ELSE c
UnionSchema == {LeftName(c) : c \in KL} \cup {RightName(c) : c \in KR}

NonCross == jStrategy \in {"inner", "left", "right", "full"}
BothNonEmpty == jLeft # <<>> /\ jRight # <<>>

LeftKey(l) == l[jKey[1]]
RightKey(r) == r[jKey[2]]

\* the row carries the left record l / the right record r
HasLeft(row, l) ==
    \A c \in DOMAIN l : LeftName(c) \in DOMAIN row /\ row[LeftName(c)] = l[c]
HasRight(row, r) ==
    \A c \in DOMAIN r : RightName(c) \in DOMAIN row /\ row[RightName(c)] = r[c]
NullLeft(row) ==
    \A c \in KL : LeftName(c) \in DOMAIN row /\ row[LeftName(c)] = None
NullRight(row) ==
    \A c \in KR : RightName(c) \in DOMAIN row /\ row[RightName(c)] = None

IsMatchedRow(row, l, r) ==
    DOMAIN row = UnionSchema /\ HasLeft(row, l) /\ HasRight(row, r)
IsLeftPaddedRow(row, l) ==
    DOMAIN row = UnionSchema /\ HasLeft(row, l) /\ NullRight(row)
IsRightPaddedRow(row, r) ==
    DOMAIN row = UnionSchema /\ HasRight(row, r) /\ NullLeft(row)

LeftUnmatched(i) == \A j \in 1..Len(jRight) : LeftKey(jLeft[i]) # RightKey(jRight[j])
RightUnmatched(j) == \A i \in 1..Len(jLeft) : LeftKey(jLeft[i]) # RightKey(jRight[j])

\* C5: for a non-cross join on non-empty inputs, strategy full keeps every
\* left and every right record in at least one output row, strategy left
\* keeps every left record and strategy right keeps every right record.
JoinTotality ==
    (jDone /\ NonCross /\ BothNonEmpty) =>
        /\ jStrategy \in {"left", "full"} =>
              \A i \in 1..Len(jLeft) :
                  \E n \in 1..Len(jOut) : HasLeft(jOut[n], jLeft[i])
        /\ jStrategy \in {"right", "full"} =>
              \A j \in 1..Len(jRight) :
                  \E n \in 1..Len(jOut) : HasRight(jOut[n], jRight[j])

\* a full join has run in which the first left record and the first right
\* record (the ones the pre-pass pulled) have no partner
JoinTotalityWitness ==
    /\ jDone /\ jStrategy = "full"
    /\ Len(jLeft) >= 2 /\ Len(jRight) >= 2
    /\ LeftUnmatched(1) /\ RightUnmatched(1)
    /\ \E n \in 1..Len(jOut) : IsLeftPaddedRow(jOut[n], jLeft[1])
    /\ \E n \in 1..Len(jOut) : IsRightPaddedRow(jOut[n], jRight[1])

\* C6: no output row of a non-cross join combines records with different
\* keys; every pair of records with equal keys is emitted exactly once; a
\* null-padded row is emitted only for a record without partner and only
\* when the strategy keeps its side; inner emits matched pairs only.
JoinMatching ==
    (jDone /\ NonCross /\ BothNonEmpty) =>
        /\ \A n \in 1..Len(jOut) :
              \/ \E i \in 1..Len(jLeft), j \in 1..Len(jRight) :
                    /\ LeftKey(jLeft[i]) = RightKey(jRight[j])
                    /\ IsMatchedRow(jOut[n], jLeft[i], jRight[j])
              \/ /\ jStrategy \in {"left", "full"}
                 /\ \E i \in 1..Len(jLeft) :
                       LeftUnmatched(i) /\ IsLeftPaddedRow(jOut[n], jLeft[i])
              \/ /\ jStrategy \in {"right", "full"}
                 /\ \E j \in 1..Len(jRight) :
                       RightUnmatched(j) /\ IsRightPaddedRow(jOut[n], jRight[j])
        /\ \A n \in 1..Len(jOut) :
              LET row == jOut[n]
              IN  (row[LeftName(jKey[1])] # None /\ row[RightName(jKey[2])] # None)
                      => row[LeftName(jKey[1])] = row[RightName(jKey[2])]
        /\ \A i \in 1..Len(jLeft), j \in 1..Len(jRight) :
              LeftKey(jLeft[i]) = RightKey(jRight[j]) =>
                  Cardinality({n \in 1..Len(jOut) :
                                  IsMatchedRow(jOut[n], jLeft[i], jRight[j])})
                  = Cardinality({p \in (1..Len(jLeft)) \X (1..Len(jRight)) :
                                  jLeft[p[1]] = jLeft[i] /\ jRight[p[2]] = jRight[j]})

\* an inner join has run on tables with a shared key value that occurs twice
\* on the left, and with a left and a right record without partner
JoinMatchingWitness ==
    /\ jDone /\ jStrategy = "inner" /\ BothNonEmpty
    /\ \E i1, i2 \in 1..Len(jLeft), j \in 1..Len(jRight) :
          /\ i1 # i2
          /\ LeftKey(jLeft[i1]) = RightKey(jRight[j])
          /\ LeftKey(jLeft[i2]) = RightKey(jRight[j])
    /\ \E i \in 1..Len(jLeft) : LeftUnmatched(i)
    /\ \E j \in 1..Len(jRight) : RightUnmatched(j)
    /\ Len(jOut) >= 2

\* C7: every output row of a non-cross join has exactly the columns of the
\* union schema: <c>_left and <c>_right, and not <c>, for a column of both
\* sides, the column's own name for a column of one side.
JoinSchema ==
    (jDone /\ NonCross /\ BothNonEmpty) =>
        \A n \in 1..Len(jOut) :
            /\ \A c \in KL \cap KR :
                  /\ (c \o "_left") \in DOMAIN jOut[n]
                  /\ (c \o "_right") \in DOMAIN jOut[n]
                  /\ c \notin DOMAIN jOut[n]
            /\ \A c \in (KL \ KR) \cup (KR \ KL) : c \in DOMAIN jOut[n]
            /\ DOMAIN jOut[n] \subseteq
                  {c \o "_left" : c \in KL \cap KR} \cup {c \o "_right" : c \in KL \cap KR}
                  \cup (KL \ KR) \cup (KR \ KL)

\* a full join has emitted a matched row, a row padded on the right and a
\* row padded on the left, on schemas with a common and a one-sided column
JoinSchemaWitness ==
    /\ jDone /\ jStrategy = "full" /\ BothNonEmpty
    /\ KL \cap KR # {} /\ KL \ KR # {} /\ KR \ KL # {}
    /\ \E n \in 1..Len(jOut) : NullRight(jOut[n])
    /\ \E n \in 1..Len(jOut) : NullLeft(jOut[n])
    /\ \E n \in 1..Len(jOut) : ~NullLeft(jOut[n]) /\ ~NullRight(jOut[n])

\* C8: a join with an empty left or an empty right input emits no rows,
\* whatever the strategy.
JoinEmptySide ==
    (jDone /\ (jLeft = <<>> \/ jRight = <<>>)) => jOut = <<>>

\* a left join with records on the left and none on the right has run
JoinEmptySideWitness ==
    jDone /\ jStrategy = "left" /\ Len(jLeft) >= 2 /\ jRight = <<>>

\* the join key of a row: the key of the side that is present
RowKey(row) ==
    IF row[LeftName(jKey[1])] # None
    THEN row[LeftName(jKey[1])]
    ELSE row[RightName(jKey[2])]

IsMatched(row) == row[LeftName(jKey[1])] # None /\ row[RightName(jKey[2])] # None

\* the row that carries l and r
MatchedRow(l, r) ==
    [n \in UnionSchema |->
        IF \E c \in DOMAIN r : RightName(c) = n
        THEN r[CHOOSE c \in DOMAIN r : RightName(c) = n]
        ELSE l[CHOOSE c \in DOMAIN l : LeftName(c) = n]]

\* the records of ls paired with those of rs, left-major
LeftMajor(ls, rs) ==
    [p \in 1..(Len(ls) * Len(rs)) |->
        MatchedRow(ls[((p - 1) \div Len(rs)) + 1], rs[((p - 1) % Len(rs)) + 1])]

\* C9: the rows of a non-cross join come in ascending order of join key,
\* and the rows of one matched key group come in left-major order: for each
\* left record of the group in input order, all right records of the group
\* in input order.
JoinOrder ==
    (jDone /\ NonCross /\ BothNonEmpty) =>
        /\ \A n, m \in 1..Len(jOut) : n < m => RowKey(jOut[n]) <= RowKey(jOut[m])
        /\ \A k \in 1..(MaxKey + 1) :
              LET InGroupRow(row) == IsMatched(row) /\ RowKey(row) = k
                  InGroupLeft(l) == LeftKey(l) = k
                  InGroupRight(r) == RightKey(r) = k
                  ls == SelectSeq(jLeft, InGroupLeft)
                  rs == SelectSeq(jRight, InGroupRight)
              IN  SelectSeq(jOut, InGroupRow) = LeftMajor(ls, rs)

\* a full join has run whose inputs were not in key order and which has a
\* matched group of two left and two right records
JoinOrderWitness ==
    /\ jDone /\ jStrategy = "full" /\ BothNonEmpty
    /\ \E i \in 1..(Len(jLeft) - 1) : LeftKey(jLeft[i]) > LeftKey(jLeft[i + 1])
    /\ \E i1, i2 \in 1..Len(jLeft), j1, j2 \in 1..Len(jRight) :
          /\ i1 < i2 /\ j1 < j2
          /\ jLeft[i1] # jLeft[i2] /\ jRight[j1] # jRight[j2]
          /\ LeftKey(jLeft[i1]) = LeftKey(jLeft[i2])
          /\ RightKey(jRight[j1]) = RightKey(jRight[j2])
          /\ LeftKey(jLeft[i1]) = RightKey(jRight[j1])
    /\ Len(jOut) >= 5

\* C10: a cross join of m left and n right records (both non-empty) emits
\* exactly m*n rows, one per pair, left-major and right-minor, with the
\* colliding columns renamed, and with no column renamed when the schemas
\* are disjoint.
CrossJoinProduct ==
    (jDone /\ jStrategy = "cross" /\ BothNonEmpty) =>
        /\ Len(jOut) = Len(jLeft) * Len(jRight)
        /\ \A i \in 1..Len(jLeft), j \in 1..Len(jRight) :
              LET row == jOut[(i - 1) * Len(jRight) + j]
              IN  /\ HasLeft(row, jLeft[i])
                  /\ HasRight(row, jRight[j])
                  /\ DOMAIN row = UnionSchema
                  /\ \A c \in KL \cap KR : c \notin DOMAIN row
                  /\ (KL \cap KR = {}) => DOMAIN row = KL \cup KR

\* cross joins of 3 left and 2 right records have run, one on schemas with
\* common columns
CrossJoinProductWitness ==
    /\ jDone /\ jStrategy = "cross"
    /\ Len(jLeft) = 3 /\ Len(jRight) = 2
    /\ KL \cap KR # {} /\ KL \ KR # {}
    /\ Len(jOut) = 6
    /\ jOut[1] # jOut[2] /\ jOut[2] # jOut[3]

\* the row combines a left and a right record whose keys are both None
NullMatch(row) ==
    \E i \in 1..Len(jLeft), j \in 1..Len(jRight) :
        /\ LeftKey(jLeft[i]) = None
        /\ RightKey(jRight[j]) = None
        /\ HasLeft(row, jLeft[i])
        /\ HasRight(row, jRight[j])

\* C21: no output row of a non-cross join combines a left record and a
\* right record that both have a null key
NoNullMatch ==
    (jDone /\ NonCross) => \A n \in 1..Len(jOut) : ~NullMatch(jOut[n])

\* the output and the exception of the join of the two tables when
\* Graph.join is given the key `key`
JoinWithKey(key) == JoinRun(jStrategy, JoinKey(jStrategy, key), jLeft, jRight)

\* C23: a non-cross join given the single column name c as key gives the
\* output of the same join given the pair (c, c), which is the output of
\* the join under test
JoinKeyCoercion ==
    (jDone /\ NonCross /\ jKey[1] = jKey[2])
    => /\ JoinWithKey(<<jKey[1]>>) = JoinWithKey(<<jKey[1], jKey[1]>>)
       /\ JoinWithKey(<<jKey[1]>>) = [rows |-> jOut, err |-> jErr]

JoinKeyCoercionWitness ==
    /\ jDone /\ NonCross /\ jKey[1] = jKey[2]
    /\ jStrategy = "full"
    /\ BothNonEmpty
    /\ Len(jOut) > Len(jLeft)

====
